---- MODULE Spec2Model ----
(***************************************************************************)
(* Failure tracker of org-standards                                        *)
(* (claude-code/introspection/v1.0.0/core/failure_tracker.py).             *)
(*                                                                         *)
(* The module holds several state machines over one set of variables:      *)
(*   SpecSession  SessionManager._get_or_create_session_id, N processes    *)
(*                racing on one key file /tmp/claude-session-<boot>-<ppid> *)
(*   SpecAtomic   atomic_write by concurrent writers of one path, and a    *)
(*                reader of that path                                      *)
(*   Spec         FailureTracker.log_failure called by concurrent          *)
(*                processes of one session, with file_lock in full         *)
(*   SpecLive     Spec with the scheduling of file_lock's loop             *)
(*   SpecSessionLive  SpecSession with the scheduling of the blocking flock*)
(*   SpecAlert    save_alerts, get_pending_alerts and clear_alerts called  *)
(*                by concurrent processes of one session                   *)
(*   SpecBoot     _get_boot_time and the key of the session file, in       *)
(*                several processes and threads                            *)
(*   SpecCmd      the commands of main() on one session, with the lookback *)
(*                window of analyze_patterns                               *)
(*   SpecOps      the operations on one session's files taken as wholes:   *)
(*                log_failure, analyze_patterns, save_alerts,              *)
(*                get_pending_alerts, clear_alerts, cleanup_old_sessions,  *)
(*                PatternDetector.analyze_recent                           *)
(* Each machine leaves the variables of the others untouched.              *)
(***************************************************************************)
EXTENDS Integers, Sequences, FiniteSets, TLC

(***************************************************************************)
(* Session identity: SessionManager._get_or_create_session_id              *)
(***************************************************************************)

\* Number of hook processes started under one (boot time, ppid) key.
NumSess == 3

SProcs == 1..NumSess

NoProc == 0
NoId == <<"none">>
\* The value of CLAUDE_SESSION_ID when the environment supplies one.
ExtId == <<"external">>
\* The key file does not exist / exists with no id in it.
NoFile == <<"absent">>
EmptyFile == <<"empty">>

VARIABLES
    sPc,        \* sPc[p]: position of process p in _get_or_create_session_id
    sEnv,       \* sEnv[p]: os.environ.get("CLAUDE_SESSION_ID") of p
    sLock,      \* holder of the flock on the key file's .lock file
    keyFile,    \* content of the key file
    sId,        \* sId[p]: the id p minted (uuid4), NoId before
    sResult,    \* sResult[p]: the id returned to p's caller
    sVia,       \* sVia[p]: the return statement p left through
    uuidCtr,    \* uuid4 draws so far: every draw is a fresh value
    stored      \* every id ever written into the key file

sessVars == <<sPc, sEnv, sLock, keyFile, sId, sResult, sVia, uuidCtr, stored>>

\* Number of processes calling atomic_write on one path. A hook process
\* writes a path once (main(), lines 818-863): the writes of one path are the
\* calls of different processes.
NumWriters == 2

AProcs == 1..NumWriters

\* A file (inode) is named by the call that created it: <<process, call number>>.
Inodes == AProcs \X {1}
NoInode == <<0, 0>>
\* What a reader holds before its first read has finished.
NotRead == <<"not read">>

VARIABLES
    aPc,            \* aPc[p]: position of writer p in atomic_write
    aCalls,         \* aCalls[p]: atomic_write calls p has started
    aTemp,          \* aTemp[p]: the temp file of p's current (or last) call
    aPos,           \* aPos[p]: parts of the content the producer has written
    aSuccess,       \* aSuccess[p]: the local flag `success`
    aRaised,        \* aRaised[p]: an exception is propagating out of the call
    aOutcome,       \* aOutcome[p]: how p's last call ended: "ok" or "raised"
    aUnlinkFailed,  \* aUnlinkFailed[p]: os.unlink raised in _cleanup_temp_file
    iData,          \* iData[i]: the parts stored in file i
    tempLinks,      \* the temp files that exist (are linked in the directory)
    target,         \* the file `filepath` names, NoInode while it does not exist
    registry,       \* registry[p]: the list _temp_files of process p
    rPc,            \* position of the reader: "idle" or "reading"
    rIno,           \* the file the reader has open
    rBuf,           \* the parts the reader has read so far
    rSeen           \* the content the reader's last finished read returned

atomVars == <<aPc, aCalls, aTemp, aPos, aSuccess, aRaised, aOutcome, aUnlinkFailed,
              iData, tempLinks, target, registry, rPc, rIno, rBuf, rSeen>>

\* Number of hook processes of one session that call log_failure.
NumProcs == 2
\* Number of times the clock is advanced.
MaxTicks == 1
\* file_lock(filepath, timeout=5.0, stale_threshold=300.0), in seconds.
Timeout == 5
StaleThreshold == 300

LProcs == 1..NumProcs

VARIABLES
    pc,          \* pc[p]: position of process p in log_failure / file_lock
    now,         \* time.time()
    ticks,       \* how often the clock has been advanced
    lockHolder,  \* the process whose open file holds the flock, or NoProc
    lockMtime,   \* st_mtime of the lock file
    lStart,      \* lStart[p]: the local `start` of file_lock
    lElapsed,    \* lElapsed[p]: the local `elapsed` of file_lock
    locked,      \* locked[p]: p's flock call succeeded (it runs its body locked)
    viaStale,    \* viaStale[p]: p got the lock by the flock of line 405
    waited,      \* waited[p]: p's first flock met BlockingIOError
    heldSince,   \* the time the current holder acquired the lock
    wPos,        \* wPos[p]: parts of the record written to the primary log
    ePos,        \* ePos[p]: parts written to the emergency log
    exc,         \* exc[p]: the exception propagating in p, "none" without one
    outcome,     \* outcome[p]: how log_failure ended
    log,         \* the session's failures.jsonl, as the sequence of parts written
    emPerm,      \* /tmp/failures-emergency-<session id>.jsonl
    emTimeout,   \* <session dir>/failures-emergency.jsonl
    completed    \* the processes in the order their primary appends completed

storeVars == <<pc, now, ticks, lockHolder, lockMtime, lStart, lElapsed, locked,
               viaStale, waited, heldSince, wPos, ePos, exc, outcome, log,
               emPerm, emTimeout, completed>>

(***************************************************************************)
(* The operations on one session's files: FailureTracker's methods,        *)
(* cleanup_old_sessions and PatternDetector.analyze_recent, each taken as  *)
(* a whole. A session directory is followed through its moves: every       *)
(* mkdir of sessions/<id> starts a new generation of the directory.        *)
(***************************************************************************)

MaxGens == 2
MaxRecords == 3
MaxTime == 2
DayLen == 2
PatternThreshold == 2
Gens == 1..MaxGens
NoInfo == 0 - 1
NoDir == <<"none", 0>>
ActiveDir == <<"sessions", 0>>

VARIABLES
    oNow,        \* the clock, DayLen units to the day
    gens,        \* the number of session directories created so far
    dirAt,       \* dirAt[g]: where directory g is: NoDir, ActiveDir,
                 \*   <<"archive", date>> or <<"nested", date>>
    info,        \* info[g]: start_time of g's session-info.json, or NoInfo
    flog,        \* flog[g]: g's failures.jsonl (parts written), or NoFile
    alertFile,   \* alertFile[g]: g's alerts.json (occurrences), or NoFile
    emergFile,   \* emergFile[g]: g's failures-emergency.jsonl
    tmpEmerg,    \* /tmp/failures-emergency-<session id>.jsonl
    recCtr,      \* the number of log_failure calls so far
    appended,    \* appended[g]: the calls whose append to flog[g] completed,
                 \*   in the order of completion
    ret          \* the last operation, the exception it raised ("none"
                 \*   without one) and the value it returned

opsVars == <<oNow, gens, dirAt, info, flog, alertFile, emergFile, tmpEmerg,
             recCtr, appended, ret>>

(***************************************************************************)
(* The alert file of one session, used by concurrent processes:            *)
(* save_alerts, get_pending_alerts, clear_alerts                           *)
(***************************************************************************)

\* Number of processes of one session working on alerts.json.
NumAlProcs == 2
AlProcs == 1..NumAlProcs

VARIABLES
    alPc,       \* alPc[p]: position of p: "idle", "g_lock", "g_read",
                \*   "g_unlock" in get_pending_alerts, "c_unlink" in clear_alerts
    alLock,     \* the process holding the flock of alerts.json.lock, or NoProc
    alFile,     \* alerts.json: NoFile or its alert_data
    alGot,      \* alGot[p]: what p's last get_pending_alerts returned
    alActor     \* the process that took the last step, NoProc at the start

alertVars == <<alPc, alLock, alFile, alGot, alActor>>

(***************************************************************************)
(* Boot time and the key of the session file: _get_boot_time and lines     *)
(* 167-235 of SessionManager._get_or_create_session_id                     *)
(***************************************************************************)

\* Calls of _get_or_create_session_id made in hook processes that one parent
\* process started on one host, with no restart.
NumCalls == 3

\* The wall clock runs from the boot of the host to MaxClock, in ticks.
MaxClock == 2

\* Ticks of the clock in one second: int() at line 174 drops the fraction.
TicksPerSecond == 2

BCalls == 1..NumCalls

\* The process in which call c is made: every process makes up to two calls,
\* in two threads.
ProcOf(c) == (c + 1) \div 2

BProcs == {ProcOf(c) : c \in BCalls}

\* _BOOT_TIME_CACHE is None; also a time that was not taken yet.
NoBoot == 0 - 1

\* The time at which the host booted, on the model's clock.
HostBoot == 0

VARIABLES
    bNow,       \* time.time()
    bMethod,    \* the first of the four methods that works on this host,
                \* 0 until a call has tried them
    bEnv,       \* bEnv[p]: CLAUDE_SESSION_ID in the environment of p
    bStart,     \* bStart[p]: create_time() of process p, NoBoot before it runs
    bPc,        \* bPc[c]: position of call c
    bCache,     \* bCache[p]: _BOOT_TIME_CACHE of process p
    bMutex,     \* bMutex[p]: the call holding _BOOT_TIME_CACHE_LOCK, or 0
    bUptime,    \* bUptime[c]: uptime_seconds read from /proc/uptime
    bBoot,      \* bBoot[c]: what _get_boot_time returned to call c
    bKeyFiles,  \* bKeyFiles[k]: content of /tmp/claude-session-<k>-<ppid>.txt
    bUuid,      \* number of uuid4 draws so far
    bResult     \* bResult[c]: what _get_or_create_session_id returned

bootVars == <<bNow, bMethod, bEnv, bStart, bPc, bCache, bMutex, bUptime, bBoot,
              bKeyFiles, bUuid, bResult>>

(***************************************************************************)
(* The commands of main() on one session, one after the other: log,        *)
(* analyze, alerts, clear; the clock counts lookback units                 *)
(***************************************************************************)

\* The clock of the commands runs from 0 to MaxHours.
MaxHours == 2

\* The number of log commands that record a failure.
MaxLogged == 3

\* lookback_hours = 1 of the analyze command (line 842), in ticks of the clock.
Lookback == 1

VARIABLES
    cNow,      \* datetime.now()
    cLog,      \* failures.jsonl of the session: the timestamps of its records
    cAlerts,   \* alerts.json of the session, or NoFile
    cRet       \* the last command and what its call returned

cmdVars == <<cNow, cLog, cAlerts, cRet>>

(***************************************************************************)
(* analyze_patterns over one session's failures.jsonl. The clock counts    *)
(* units of ten minutes, so that an hour of lookback is HourLen units.     *)
(* A line of the log is what json.loads makes of it: `json` says whether   *)
(* the text parses and to what, `keys` are the keys of the parsed object,  *)
(* and tool_input is <<"dict">> (a dictionary without "command"),          *)
(* <<"dict", head, tail>> (a dictionary whose command is head followed by  *)
(* tail, head being its first 100 characters) or <<"null">>.               *)
(***************************************************************************)
MaxLines == 3
MaxPNow == 2
HourLen == 6
Lookbacks == {0, 1}
Kinds == {"file_not_found", "command_failed"}
RecordKeys == {"timestamp", "session_id", "hostname", "tool_name", "error_type",
               "error_message", "tool_input", "exit_code"}
NoCommand == <<"dict">>
Commands == {<<"dict", "ls", "">>, <<"dict", "ls", " -l">>}
NullInput == <<"null">>

VARIABLES
    pNow,       \* datetime.now(), in units of ten minutes
    pLog,       \* the lines of this session's failures.jsonl
    pRet,       \* how the last call ended: outcome, alerts, lookback_hours
    pWin        \* the records of the log inside the window of the last call

patVars == <<pNow, pLog, pRet, pWin>>

(***************************************************************************)
(* _extract_error_type. A text is a sequence of chunks; each pattern of    *)
(* the table is a sequence of chunks too ("No such file" is two chunks, so *)
(* that it can lie across the end of stderr), and "..." is text that       *)
(* holds no pattern.                                                       *)
(***************************************************************************)
MaxChunks == 2
ExitCodes == {0, 1}

VARIABLES
    clsEvent,   \* event_data of the last call: stderr, stdout, exit_code
    clsType     \* what _extract_error_type returned for it

clsVars == <<clsEvent, clsType>>

(***************************************************************************)
(* analyze_recent over the failure logs of several sessions. The clock     *)
(* counts days. DetInputs are the records the sessions log, listed session *)
(* by session in the order each session writes them; dCount[i] is the      *)
(* number of lines with DetInputs[i] in its session's failures.jsonl.      *)
(***************************************************************************)
MaxFailures == 12
MaxDay == 1
DaysBack == {0, 7}
DetInputs == <<
    [session_id |-> "s1", error_type |-> "file_not_found", tool_name |-> "Bash",
     hostname |-> "hostA", timestamp |-> 0],
    [session_id |-> "s2", error_type |-> "file_not_found", tool_name |-> "Bash",
     hostname |-> "hostA", timestamp |-> 1],
    [session_id |-> "s2", error_type |-> "module_not_found", tool_name |-> "Bash",
     hostname |-> "hostA", timestamp |-> 1],
    [session_id |-> "s3", error_type |-> "file_not_found", tool_name |-> "Edit",
     hostname |-> "hostB", timestamp |-> 1],
    [session_id |-> "s3", error_type |-> "syntax_error", tool_name |-> "Bash",
     hostname |-> "hostB", timestamp |-> 1],
    [session_id |-> "s4", error_type |-> "file_not_found", tool_name |-> "Edit",
     hostname |-> "hostB", timestamp |-> 1],
    [session_id |-> "s4", error_type |-> "type_error", tool_name |-> "Bash",
     hostname |-> "hostB", timestamp |-> 1] >>

VARIABLES
    dNow,       \* datetime.now(), in days
    dCount,     \* the lines of the sessions' logs, counted by record
    dRet,       \* what the last call of analyze_recent returned
    dWin        \* the lines inside the window of that call, counted by record

detVars == <<dNow, dCount, dRet, dWin>>

(***************************************************************************)
(* cleanup_old_sessions beside a log_failure call in progress. One session *)
(* id; Gens are the directories that get made for it, as above. The call   *)
(* of log_failure is followed step by step: it holds a descriptor of       *)
(* failures.jsonl between open and write, and the descriptor stays with    *)
(* the file when the directory is renamed.                                 *)
(***************************************************************************)
VARIABLES
    arNow,      \* datetime.now()
    arGens,     \* directories made so far
    arDirAt,    \* where each directory is
    arInfo,     \* start_time of each directory's session-info.json
    arLog,      \* the records of each directory's failures.jsonl
    arPc,       \* the log_failure call: "idle", "locked", "open"
    arFd,       \* the directory whose failures.jsonl the call has open
    arRecs,     \* records handed to log_failure so far
    arBefore,   \* records under sessions/ and archive/ when the last run began
    arAtMove,   \* what each failures.jsonl held when its directory was moved
    arLate      \* whether it was open in the call when the directory was moved

archVars == <<arNow, arGens, arDirAt, arInfo, arLog, arPc, arFd, arRecs,
              arBefore, arAtMove, arLate>>

(***************************************************************************)
(* cleanup_old_sessions over several sessions. Directories are numbered in *)
(* the order they are made; a session id gets a new directory each time    *)
(* SessionManager() runs while sessions/<id> is not there.                 *)
(***************************************************************************)
MaxSwDirs == 2
MaxSwNow == 3
MaxSwRecs == 1
SwIds == {1, 2}
SwDirs == 1..MaxSwDirs

VARIABLES
    swNow,      \* datetime.now(), DayLen units to the day
    swMade,     \* directories made so far
    swId,       \* swId[g]: the session id directory g was made for
    swAt,       \* swAt[g]: NoDir, ActiveDir, <<"archive", date>> (the
                \*   directory archive/<date>/<id>) or <<"nested", date>>
                \*   (archive/<date>/<id>/<id>)
    swInfo,     \* swInfo[g]: what session-info.json of g holds
    swLog,      \* swLog[g]: the records of g's failures.jsonl
    swRecs,     \* records logged so far
    swRuns,     \* runs of cleanup_old_sessions so far, modulo 2
    swDays,     \* the argument of the last run
    swRet       \* <<exception or "none", archived_count>> of the last run

sweepVars == <<swNow, swMade, swId, swAt, swInfo, swLog, swRecs, swRuns, swDays,
               swRet>>

(***************************************************************************)
(* session-info.json of one session: the hook processes of the session     *)
(* each run FailureTracker() once.                                         *)
(***************************************************************************)
NumInfoProcs == 2
MaxInfoNow == 2
InfoProcs == 1..NumInfoProcs

VARIABLES
    siNow,      \* datetime.now()
    siPc,       \* siPc[p]: "start", "write_session_info", "built",
                \*   "atomic_write", "done"
    siInfo,     \* siInfo[p]: the info dict p built, <<pid, start_time>>
    siFile      \* session-info.json: NoFile or the dict it holds

infoVars == <<siNow, siPc, siInfo, siFile>>

(***************************************************************************)
(* PatternDetector.get_session_details and compare_sessions over the       *)
(* directories of sessions/ and archive/<date>/.                           *)
(***************************************************************************)
NumGdIds == 2
NumGdDates == 2
GdIds == 1..NumGdIds
GdDates == 1..NumGdDates

VARIABLES
    gdActive,   \* the session ids with a directory sessions/<id>
    gdArchive,  \* NoArchive without archive/, else <<"dirs", ids>> with
                \*   ids[date]: the ids with a directory archive/<date>/<id>
    gdRet       \* the last call with its outcome, NoQuery after a change

gdVars == <<gdActive, gdArchive, gdRet>>

(***************************************************************************)
(* quality_gates.py: execute_gates over a parsed configuration. The        *)
(* configuration is the one of line 163, after the stage relaxations; what *)
(* `which` and the gate's command do on the machine is part of the input.  *)
(***************************************************************************)
MaxOrder == 3
GateNames == {"testing", "coverage"}

VARIABLES
    gtPc,       \* "none", "loop" (lines 169-188), "after" (190), "returned"
    gtGates,    \* config.gates: for each name enabled, required, depends_on,
                \*   and what its tool and command do: which, returncode
    gtOrder,    \* config.execution_order
    gtPos,      \* the entries of execution_order the loop has taken
    gtResults,  \* results: <<gate_name, passed>> in the order of execution
    gtRet       \* ExecutionResults: <<passed, failed_count, total_count>>

gateVars == <<gtPc, gtGates, gtOrder, gtPos, gtResults, gtRet>>

(***************************************************************************)
(* quality_gates.py: _apply_stage_relaxations. Gate objects live at        *)
(* addresses; a configuration names the address of each of its gates, so   *)
(* that a copy and the object passed in can be told apart.                 *)
(***************************************************************************)
RelaxGates == {"coverage", "testing"}
Addrs == 1..(2 * Cardinality(RelaxGates))

VARIABLES
    rxPc,       \* "none", "called", "returned"
    rxHeap,     \* rxHeap[a]: the GateConfig object at address a, or NoGate
    rxConfig,   \* the configuration passed in: the address of each gate
    rxGiven,    \* the gate objects as they were when the call was made
    rxStage,    \* the stage passed in
    rxRet       \* <<"returned", configuration>> or <<"raised", exception>>

relaxVars == <<rxPc, rxHeap, rxConfig, rxGiven, rxStage, rxRet>>

(***************************************************************************)
(* PatternDetector.analyze_recent step by step, beside the moves of        *)
(* cleanup_old_sessions. Every session holds one failure record inside the *)
(* window.                                                                 *)
(***************************************************************************)
NumScanIds == 3
NumScanDates == 2
ScanIds == 1..NumScanIds
ScanDates == 1..NumScanDates

VARIABLES
    scAt,       \* scAt[i]: <<"sessions", 0>> or <<"archive", date>>
    scPc,       \* "idle", "sessions", "dates", "returned"
    scDates,    \* the date directories archive_dir.iterdir() has yet to yield
    scTodo,     \* the session directories the current iterdir() has yet to
                \*   yield
    scRead,     \* scRead[i]: how often the record of session i was read
    scRet       \* total_failures of the report

scanVars == <<scAt, scPc, scDates, scTodo, scRead, scRet>>

(***************************************************************************)
(* hooks/session_end.py: main() as the consumer of alerts.json, beside the *)
(* analysis passes that save it. Snapshots are numbered as they are saved. *)
(***************************************************************************)
MaxSaves == 4

VARIABLES
    seFile,     \* alerts.json: NoSnapshot or the number of the snapshot
    seSaved,    \* snapshots saved so far
    seSeen,     \* the snapshots some get_pending_alerts has returned
    sePc,       \* main(): "start", "get_read", "got", "clear_exists",
                \* "clear_unlink", "done"
    seAlerts    \* main()'s alerts: the snapshot it got, NoSnapshot for []

endVars == <<seFile, seSaved, seSeen, sePc, seAlerts>>

vars == <<sessVars, atomVars, storeVars, opsVars, alertVars, bootVars, cmdVars, patVars, clsVars, detVars, archVars, sweepVars, infoVars, gdVars, gateVars, relaxVars, scanVars, endVars>>

\* What the actions of one machine leave unchanged.
notSess == <<atomVars, storeVars, opsVars, alertVars, bootVars, cmdVars, patVars, clsVars, detVars, archVars, sweepVars, infoVars, gdVars, gateVars, relaxVars, scanVars, endVars>>
notAtom == <<sessVars, storeVars, opsVars, alertVars, bootVars, cmdVars, patVars, clsVars, detVars, archVars, sweepVars, infoVars, gdVars, gateVars, relaxVars, scanVars, endVars>>
notStore == <<sessVars, atomVars, opsVars, alertVars, bootVars, cmdVars, patVars, clsVars, detVars, archVars, sweepVars, infoVars, gdVars, gateVars, relaxVars, scanVars, endVars>>
notOps == <<sessVars, atomVars, storeVars, alertVars, bootVars, cmdVars, patVars, clsVars, detVars, archVars, sweepVars, infoVars, gdVars, gateVars, relaxVars, scanVars, endVars>>
notAlert == <<sessVars, atomVars, storeVars, opsVars, bootVars, cmdVars, patVars, clsVars, detVars, archVars, sweepVars, infoVars, gdVars, gateVars, relaxVars, scanVars, endVars>>
notBoot == <<sessVars, atomVars, storeVars, opsVars, alertVars, cmdVars, patVars, clsVars, detVars, archVars, sweepVars, infoVars, gdVars, gateVars, relaxVars, scanVars, endVars>>
notCmd == <<sessVars, atomVars, storeVars, opsVars, alertVars, bootVars, patVars, clsVars, detVars, archVars, sweepVars, infoVars, gdVars, gateVars, relaxVars, scanVars, endVars>>
notPat == <<sessVars, atomVars, storeVars, opsVars, alertVars, bootVars, cmdVars, clsVars, detVars, archVars, sweepVars, infoVars, gdVars, gateVars, relaxVars, scanVars, endVars>>
notCls == <<sessVars, atomVars, storeVars, opsVars, alertVars, bootVars, cmdVars, patVars, detVars, archVars, sweepVars, infoVars, gdVars, gateVars, relaxVars, scanVars, endVars>>
notDet == <<sessVars, atomVars, storeVars, opsVars, alertVars, bootVars, cmdVars, patVars, clsVars, archVars, sweepVars, infoVars, gdVars, gateVars, relaxVars, scanVars, endVars>>
notArch == <<sessVars, atomVars, storeVars, opsVars, alertVars, bootVars, cmdVars, patVars, clsVars, detVars, sweepVars, infoVars, gdVars, gateVars, relaxVars, scanVars, endVars>>
notSweep == <<sessVars, atomVars, storeVars, opsVars, alertVars, bootVars, cmdVars, patVars, clsVars, detVars, archVars, infoVars, gdVars, gateVars, relaxVars, scanVars, endVars>>
notInfo == <<sessVars, atomVars, storeVars, opsVars, alertVars, bootVars, cmdVars, patVars, clsVars, detVars, archVars, sweepVars, gdVars, gateVars, relaxVars, scanVars, endVars>>
notGd == <<sessVars, atomVars, storeVars, opsVars, alertVars, bootVars, cmdVars, patVars, clsVars, detVars, archVars, sweepVars, infoVars, gateVars, relaxVars, scanVars, endVars>>
notGate == <<sessVars, atomVars, storeVars, opsVars, alertVars, bootVars, cmdVars, patVars, clsVars, detVars, archVars, sweepVars, infoVars, gdVars, relaxVars, scanVars, endVars>>
notRelax == <<sessVars, atomVars, storeVars, opsVars, alertVars, bootVars, cmdVars, patVars, clsVars, detVars, archVars, sweepVars, infoVars, gdVars, gateVars, scanVars, endVars>>
notScan == <<sessVars, atomVars, storeVars, opsVars, alertVars, bootVars, cmdVars, patVars, clsVars, detVars, archVars, sweepVars, infoVars, gdVars, gateVars, relaxVars, endVars>>
notEnd == <<sessVars, atomVars, storeVars, opsVars, alertVars, bootVars, cmdVars, patVars, clsVars, detVars, archVars, sweepVars, infoVars, gdVars, gateVars, relaxVars, scanVars>>

InitSession ==
    /\ sPc = [p \in SProcs |-> "start"]
    /\ sEnv = [p \in SProcs |-> NoId]
    /\ sLock = NoProc
    /\ keyFile = NoFile
    /\ sId = [p \in SProcs |-> NoId]
    /\ sResult = [p \in SProcs |-> NoId]
    /\ sVia = [p \in SProcs |-> "none"]
    /\ uuidCtr = 0
    /\ stored = {}

\* str(uuid.uuid4()): a value no earlier draw returned.
Uuid4(n) == <<"session", n + 1>>

\* fcntl.flock(lock_fd, LOCK_EX) returns once no other open file holds the lock.
FlockGranted_NoBlock(p) == TRUE

FlockGranted(p) == sLock = NoProc

\* session_file.exists() and its stripped content is non-empty (lines 202-205).
KeyFileHasId == keyFile \notin {NoFile, EmptyFile}

\* lines 167-171: the environment variable wins and nothing else is done.
SessEnv(p) ==
    /\ UNCHANGED notSess
    /\ sPc[p] = "start"
    /\ \E e \in {NoId, ExtId} :
         /\ sEnv' = [sEnv EXCEPT ![p] = e]
         /\ IF e # NoId
            THEN /\ sResult' = [sResult EXCEPT ![p] = e]
                 /\ sVia' = [sVia EXCEPT ![p] = "env"]
                 /\ sPc' = [sPc EXCEPT ![p] = "done"]
            ELSE /\ sPc' = [sPc EXCEPT ![p] = "touch"]
                 /\ UNCHANGED <<sResult, sVia>>
    /\ UNCHANGED <<sLock, keyFile, sId, uuidCtr, stored>>

\* lines 192-193: lock_file.touch(exist_ok=True), outside the try block, so an
\* OSError here leaves _get_or_create_session_id as an exception.
SessTouch(p) ==
    /\ UNCHANGED notSess
    /\ sPc[p] = "touch"
    /\ \E ok \in BOOLEAN :
         IF ok
         THEN /\ sPc' = [sPc EXCEPT ![p] = "open"]
              /\ UNCHANGED sVia
         ELSE /\ sPc' = [sPc EXCEPT ![p] = "done"]
              /\ sVia' = [sVia EXCEPT ![p] = "raised"]
    /\ UNCHANGED <<sEnv, sLock, keyFile, sId, sResult, uuidCtr, stored>>

\* line 196: open(lock_file, "r+"); an OSError goes to the handler at 241.
SessOpen(p) ==
    /\ UNCHANGED notSess
    /\ sPc[p] = "open"
    /\ \E ok \in BOOLEAN :
         sPc' = [sPc EXCEPT ![p] = IF ok THEN "flock" ELSE "fallback"]
    /\ UNCHANGED <<sEnv, sLock, keyFile, sId, sResult, sVia, uuidCtr, stored>>

\* line 198: the blocking flock; it returns with the lock, or fails (ENOLCK).
SessFlock(p) ==
    /\ UNCHANGED notSess
    /\ sPc[p] = "flock"
    /\ \/ /\ FlockGranted(p)
          /\ sLock' = p
          /\ sPc' = [sPc EXCEPT ![p] = "check"]
       \/ /\ sPc' = [sPc EXCEPT ![p] = "fallback"]
          /\ UNCHANGED sLock
    /\ UNCHANGED <<sEnv, keyFile, sId, sResult, sVia, uuidCtr, stored>>

\* lines 202-217: the double check under the lock; an existing id is returned
\* (through the finally at 237), otherwise a new one is drawn. Reading the file
\* can fail with an OSError.
SessCheck(p) ==
    /\ UNCHANGED notSess
    /\ sPc[p] = "check"
    /\ \/ /\ KeyFileHasId
          /\ sResult' = [sResult EXCEPT ![p] = keyFile]
          /\ sVia' = [sVia EXCEPT ![p] = "reused"]
          /\ sPc' = [sPc EXCEPT ![p] = "unlock"]
          /\ UNCHANGED <<sId, uuidCtr>>
       \/ /\ ~KeyFileHasId
          /\ sId' = [sId EXCEPT ![p] = Uuid4(uuidCtr)]
          /\ uuidCtr' = uuidCtr + 1
          /\ sPc' = [sPc EXCEPT ![p] = "creat"]
          /\ UNCHANGED <<sResult, sVia>>
       \/ /\ keyFile # NoFile
          /\ sVia' = [sVia EXCEPT ![p] = "oserror"]
          /\ sPc' = [sPc EXCEPT ![p] = "unlock"]
          /\ UNCHANGED <<sId, uuidCtr, sResult>>
    /\ UNCHANGED <<sEnv, sLock, keyFile, stored>>

\* line 220: open(session_file, "w") creates or truncates the key file.
SessCreat(p) ==
    /\ UNCHANGED notSess
    /\ sPc[p] = "creat"
    /\ \/ /\ keyFile' = EmptyFile
          /\ sPc' = [sPc EXCEPT ![p] = "write"]
          /\ UNCHANGED sVia
       \/ /\ sVia' = [sVia EXCEPT ![p] = "oserror"]
          /\ sPc' = [sPc EXCEPT ![p] = "unlock"]
          /\ UNCHANGED keyFile
    /\ UNCHANGED <<sEnv, sLock, sId, sResult, uuidCtr, stored>>

\* lines 221-235: write, flush, fsync, return session_id. A failed write leaves
\* the file empty; a failed fsync leaves the id in it.
SessWrite(p) ==
    /\ UNCHANGED notSess
    /\ sPc[p] = "write"
    /\ \/ /\ keyFile' = sId[p]
          /\ stored' = stored \cup {sId[p]}
          /\ \/ /\ sResult' = [sResult EXCEPT ![p] = sId[p]]
                /\ sVia' = [sVia EXCEPT ![p] = "created"]
             \/ /\ sVia' = [sVia EXCEPT ![p] = "oserror"]
                /\ UNCHANGED sResult
       \/ /\ sVia' = [sVia EXCEPT ![p] = "oserror"]
          /\ UNCHANGED <<keyFile, stored, sResult>>
    /\ sPc' = [sPc EXCEPT ![p] = "unlock"]
    /\ UNCHANGED <<sEnv, sLock, sId, uuidCtr>>

\* lines 237-239: the finally releases the lock on every way out of the block;
\* an OSError raised inside the block then reaches the handler at 241.
SessUnlock(p) ==
    /\ UNCHANGED notSess
    /\ sPc[p] = "unlock"
    /\ sLock' = IF sLock = p THEN NoProc ELSE sLock
    /\ sPc' = [sPc EXCEPT ![p] = IF sVia[p] = "oserror" THEN "fallback" ELSE "done"]
    /\ UNCHANGED <<sEnv, keyFile, sId, sResult, sVia, uuidCtr, stored>>

\* lines 241-248: any OSError ends in an ephemeral id that is not persisted.
SessFallback(p) ==
    /\ UNCHANGED notSess
    /\ sPc[p] = "fallback"
    /\ sResult' = [sResult EXCEPT ![p] = Uuid4(uuidCtr)]
    /\ uuidCtr' = uuidCtr + 1
    /\ sVia' = [sVia EXCEPT ![p] = "ephemeral"]
    /\ sPc' = [sPc EXCEPT ![p] = "done"]
    /\ UNCHANGED <<sEnv, sLock, keyFile, sId, stored>>

NextSession ==
    \E p \in SProcs :
        \/ SessEnv(p)
        \/ SessTouch(p)
        \/ SessOpen(p)
        \/ SessFlock(p)
        \/ SessCheck(p)
        \/ SessCreat(p)
        \/ SessWrite(p)
        \/ SessUnlock(p)
        \/ SessFallback(p)

(***************************************************************************)
(* Atomic persistence: atomic_write, _cleanup_temp_file                    *)
(***************************************************************************)

InitAtomic ==
    /\ aPc = [p \in AProcs |-> "idle"]
    /\ aCalls = [p \in AProcs |-> 0]
    /\ aTemp = [p \in AProcs |-> NoInode]
    /\ aPos = [p \in AProcs |-> 0]
    /\ aSuccess = [p \in AProcs |-> FALSE]
    /\ aRaised = [p \in AProcs |-> FALSE]
    /\ aOutcome = [p \in AProcs |-> "none"]
    /\ aUnlinkFailed = [p \in AProcs |-> FALSE]
    /\ iData = [i \in Inodes |-> <<>>]
    /\ tempLinks = {}
    /\ target = NoInode
    /\ registry = [p \in AProcs |-> {}]
    /\ rPc = "idle"
    /\ rIno = NoInode
    /\ rBuf = <<>>
    /\ rSeen = NotRead

\* The content call c serializes: it reaches the file in two writes.
Content(c) == << <<c, "head">>, <<c, "tail">> >>

\* The call p is making.
ACall(p) == <<p, aCalls[p]>>

\* line 285: tempfile.mkstemp(dir=filepath.parent, ...) creates a new file
\* beside the target.
TempInode_InPlace(p) == IF target # NoInode THEN target ELSE <<p, aCalls[p] + 1>>

TempInode(p) == <<p, aCalls[p] + 1>>

\* line 320: the temp file is cleaned up when the write did not succeed.
NeedsCleanup_Never(p) == FALSE

NeedsCleanup(p) == ~aSuccess[p]

\* lines 285-292: mkstemp, registration in _temp_files, success = False.
\* mkstemp itself can fail: nothing was created and the error propagates.
AMkstemp(p) ==
    /\ aPc[p] = "idle"
    /\ \/ /\ aCalls' = [aCalls EXCEPT ![p] = @ + 1]
          /\ aTemp' = [aTemp EXCEPT ![p] = TempInode(p)]
          /\ iData' = [iData EXCEPT ![TempInode(p)] = <<>>]
          /\ tempLinks' = tempLinks \cup {TempInode(p)}
          /\ registry' = [registry EXCEPT ![p] = @ \cup {TempInode(p)}]
          /\ aPos' = [aPos EXCEPT ![p] = 0]
          /\ aSuccess' = [aSuccess EXCEPT ![p] = FALSE]
          /\ aRaised' = [aRaised EXCEPT ![p] = FALSE]
          /\ aUnlinkFailed' = [aUnlinkFailed EXCEPT ![p] = FALSE]
          /\ aOutcome' = [aOutcome EXCEPT ![p] = "none"]
          /\ aPc' = [aPc EXCEPT ![p] = "produce"]
       \/ /\ aCalls' = [aCalls EXCEPT ![p] = @ + 1]
          /\ aTemp' = [aTemp EXCEPT ![p] = NoInode]
          /\ aOutcome' = [aOutcome EXCEPT ![p] = "raised"]
          /\ aPc' = [aPc EXCEPT ![p] = "done"]
          /\ UNCHANGED <<iData, tempLinks, registry, aPos, aSuccess, aRaised,
                         aUnlinkFailed>>
    /\ UNCHANGED <<target, rPc, rIno, rBuf, rSeen>>
    /\ UNCHANGED notAtom

\* lines 294-295: the caller's block writes the content into the temp file,
\* one part at a time, or raises.
AProduce(p) ==
    /\ aPc[p] = "produce"
    /\ \/ /\ aPos[p] < Len(Content(ACall(p)))
          /\ iData' = [iData EXCEPT ![aTemp[p]] =
                          Append(@, Content(ACall(p))[aPos[p] + 1])]
          /\ aPos' = [aPos EXCEPT ![p] = @ + 1]
          /\ UNCHANGED aPc
       \/ /\ aPos[p] = Len(Content(ACall(p)))
          /\ aPc' = [aPc EXCEPT ![p] = "flush"]
          /\ UNCHANGED <<iData, aPos>>
       \/ /\ aPc' = [aPc EXCEPT ![p] = "except"]
          /\ UNCHANGED <<iData, aPos>>
    /\ UNCHANGED <<aCalls, aTemp, aSuccess, aRaised, aOutcome, aUnlinkFailed,
                   tempLinks, target, registry, rPc, rIno, rBuf, rSeen>>
    /\ UNCHANGED notAtom

\* lines 296-298: f.flush(), os.fsync(), and the close at the end of the with.
AFlush(p) ==
    /\ aPc[p] = "flush"
    /\ \E ok \in BOOLEAN :
         aPc' = [aPc EXCEPT ![p] = IF ok THEN "rename" ELSE "except"]
    /\ UNCHANGED <<aCalls, aTemp, aPos, aSuccess, aRaised, aOutcome, aUnlinkFailed,
                   iData, tempLinks, target, registry, rPc, rIno, rBuf, rSeen>>
    /\ UNCHANGED notAtom

\* lines 300-302: os.rename(temp_path, filepath); success = True.
ARename(p) ==
    /\ aPc[p] = "rename"
    /\ \/ /\ target' = aTemp[p]
          /\ tempLinks' = tempLinks \ {aTemp[p]}
          /\ aSuccess' = [aSuccess EXCEPT ![p] = TRUE]
          /\ aPc' = [aPc EXCEPT ![p] = "finally"]
       \/ /\ aPc' = [aPc EXCEPT ![p] = "except"]
          /\ UNCHANGED <<target, tempLinks, aSuccess>>
    /\ UNCHANGED <<aCalls, aTemp, aPos, aRaised, aOutcome, aUnlinkFailed,
                   iData, registry, rPc, rIno, rBuf, rSeen>>
    /\ UNCHANGED notAtom

\* lines 305-317: the handler logs and re-raises.
AExcept(p) ==
    /\ aPc[p] = "except"
    /\ aRaised' = [aRaised EXCEPT ![p] = TRUE]
    /\ aPc' = [aPc EXCEPT ![p] = "finally"]
    /\ UNCHANGED <<aCalls, aTemp, aPos, aSuccess, aOutcome, aUnlinkFailed,
                   iData, tempLinks, target, registry, rPc, rIno, rBuf, rSeen>>
    /\ UNCHANGED notAtom

\* lines 42-56: os.unlink of an existing temp file; an OSError is logged and
\* swallowed, and the file stays.
CleanupTempFile(links, t, unlinked) ==
    IF t \in links /\ unlinked THEN links \ {t} ELSE links

\* lines 318-327: the finally block: cleanup unless the write succeeded, then
\* removal from _temp_files; the call returns or the exception leaves it.
AFinally(p) ==
    /\ aPc[p] = "finally"
    /\ IF NeedsCleanup(p)
       THEN \E unlinked \in BOOLEAN :
              /\ tempLinks' = CleanupTempFile(tempLinks, aTemp[p], unlinked)
              /\ aUnlinkFailed' = [aUnlinkFailed EXCEPT ![p] =
                                      aTemp[p] \in tempLinks /\ ~unlinked]
       ELSE UNCHANGED <<tempLinks, aUnlinkFailed>>
    /\ registry' = [registry EXCEPT ![p] = @ \ {aTemp[p]}]
    /\ aOutcome' = [aOutcome EXCEPT ![p] = IF aRaised[p] THEN "raised" ELSE "ok"]
    /\ aPc' = [aPc EXCEPT ![p] = "done"]
    /\ UNCHANGED <<aCalls, aTemp, aPos, aSuccess, aRaised, iData, target,
                   rPc, rIno, rBuf, rSeen>>
    /\ UNCHANGED notAtom

\* lines 59-63: at interpreter exit every path still in _temp_files is cleaned.
AAtExit(p) ==
    /\ aPc[p] \in {"idle", "done"}
    /\ tempLinks' = tempLinks \ registry[p]
    /\ aPc' = [aPc EXCEPT ![p] = "exited"]
    /\ UNCHANGED <<aCalls, aTemp, aPos, aSuccess, aRaised, aOutcome, aUnlinkFailed,
                   iData, target, registry, rPc, rIno, rBuf, rSeen>>
    /\ UNCHANGED notAtom

\* A reader opens the path (lines 741-742: open(self.alert_file)) and holds
\* the file it named at that instant.
ROpen ==
    /\ rPc = "idle"
    /\ target # NoInode
    /\ rIno' = target
    /\ rBuf' = <<>>
    /\ rPc' = "reading"
    /\ UNCHANGED <<aPc, aCalls, aTemp, aPos, aSuccess, aRaised, aOutcome,
                   aUnlinkFailed, iData, tempLinks, target, registry, rSeen>>
    /\ UNCHANGED notAtom

\* The reader reads the next part of its file, or meets the end of the file
\* and returns what it has read (line 742: json.load(f)).
RRead ==
    /\ rPc = "reading"
    /\ IF Len(rBuf) < Len(iData[rIno])
       THEN /\ rBuf' = Append(rBuf, iData[rIno][Len(rBuf) + 1])
            /\ UNCHANGED <<rPc, rSeen>>
       ELSE /\ rSeen' = rBuf
            /\ rPc' = "idle"
            /\ UNCHANGED rBuf
    /\ UNCHANGED <<aPc, aCalls, aTemp, aPos, aSuccess, aRaised, aOutcome,
                   aUnlinkFailed, iData, tempLinks, target, registry, rIno>>
    /\ UNCHANGED notAtom

NextAtomic ==
    \/ \E p \in AProcs :
        \/ AMkstemp(p)
        \/ AProduce(p)
        \/ AFlush(p)
        \/ ARename(p)
        \/ AExcept(p)
        \/ AFinally(p)
        \/ AAtExit(p)
    \/ ROpen
    \/ RRead

(***************************************************************************)
(* Advisory lock and failure store: file_lock, FailureTracker.log_failure  *)
(***************************************************************************)

InitStore ==
    /\ pc = [p \in LProcs |-> "idle"]
    /\ now = 0
    /\ ticks = 0
    /\ lockHolder = NoProc
    /\ lockMtime = 0
    /\ lStart = [p \in LProcs |-> 0]
    /\ lElapsed = [p \in LProcs |-> 0]
    /\ locked = [p \in LProcs |-> FALSE]
    /\ viaStale = [p \in LProcs |-> FALSE]
    /\ waited = [p \in LProcs |-> FALSE]
    /\ heldSince = 0
    /\ wPos = [p \in LProcs |-> 0]
    /\ ePos = [p \in LProcs |-> 0]
    /\ exc = [p \in LProcs |-> "none"]
    /\ outcome = [p \in LProcs |-> "none"]
    /\ log = <<>>
    /\ emPerm = <<>>
    /\ emTimeout = <<>>
    /\ completed = <<>>

\* json.dumps(failure_record) + "\n" of p's call (lines 480-489, 504): the
\* line reaches the file in two writes, the second one ending in the newline.
RecordParts(p) == << <<p, "head">>, <<p, "tail">> >>

\* The warning line written after the record in an emergency log (532, 567).
MarkerPart(p) == <<p, "marker">>

\* What the emergency write of p writes (lines 530-533, 565-568).
EmergencyParts(p) == Append(RecordParts(p), MarkerPart(p))

\* p is inside the loop of lines 374-437, the only place that reads the clock
\* after `start`.
InWaitLoop(p) == pc[p] \in {"l_try", "l_stale", "l_check"}

\* p is in the loop while another process holds the lock: its flock is
\* refused, and elapsed and lock_age are computed from the clock (lines 378,
\* 384). The model advances the clock while some process is there.
Blocked(p) == InWaitLoop(p) /\ lockHolder \notin {NoProc, p}

\* The clock moves in steps that pass the timeout or the stale threshold.
TickSteps == {Timeout + 1, StaleThreshold + 1}

\* fcntl.flock(fd, LOCK_EX | LOCK_NB) at line 376 succeeds when no other
\* open file holds the lock.
FlockNB_Shared(p) == TRUE

FlockNB(p) == lockHolder = NoProc

\* The second flock(fd, LOCK_EX | LOCK_NB), at line 405, after the lock file
\* was found older than stale_threshold: it too succeeds only on a free lock.
StaleFlockNB_Force(p) == TRUE

StaleFlockNB(p) == lockHolder = NoProc

\* The mode log_failure opens the primary log with (line 503): "a" appends.
OpenAppend_Truncate(content) == <<>>

OpenAppend(content) == content

\* The emergency log each handler writes: /tmp/failures-emergency-<id>.jsonl
\* after PermissionError (line 516), <session dir>/failures-emergency.jsonl
\* after TimeoutError (line 550).
EmergencyLogOf_OnePath(e) == "timeout"

EmergencyLogOf_TmpPath(e) == "perm"

EmergencyLogOf(e) == IF e = "PermissionError" THEN "perm" ELSE "timeout"

\* The exceptions log_failure has a handler for (lines 514, 547).
HasEmergencyHandler(e) == e \in {"PermissionError", "TimeoutError"}

Tick ==
    /\ ticks < MaxTicks
    /\ \E p \in LProcs : Blocked(p)
    /\ \E d \in TickSteps : now' = now + d
    /\ ticks' = ticks + 1
    /\ UNCHANGED <<pc, lockHolder, lockMtime, lStart, lElapsed, locked, viaStale,
                   waited, heldSince, wPos, ePos, exc, outcome, log, emPerm,
                   emTimeout, completed>>
    /\ UNCHANGED notStore

\* lines 349-350 (called from 502): lock_file.touch(exist_ok=True) bumps the
\* lock file's mtime. It runs before the try of file_lock: its errors
\* (permission denied, missing session directory, others) leave file_lock as
\* they are.
LTouch(p) ==
    /\ pc[p] = "idle"
    /\ \/ /\ lockMtime' = now
          /\ pc' = [pc EXCEPT ![p] = "l_open"]
          /\ UNCHANGED exc
       \/ /\ \E e \in {"PermissionError", "FileNotFoundError"} :
                exc' = [exc EXCEPT ![p] = e]
          /\ pc' = [pc EXCEPT ![p] = "handler"]
          /\ UNCHANGED lockMtime
    /\ UNCHANGED <<now, ticks, lockHolder, lStart, lElapsed, locked, viaStale,
                   waited, heldSince, wPos, ePos, outcome, log, emPerm,
                   emTimeout, completed>>
    /\ UNCHANGED notStore

\* lines 354-372: os.open of the lock file. When it fails the body runs
\* without any lock (yield at 365); otherwise the wait starts.
LOpen(p) ==
    /\ pc[p] = "l_open"
    /\ \/ /\ lStart' = [lStart EXCEPT ![p] = now]
          /\ pc' = [pc EXCEPT ![p] = "l_try"]
       \/ /\ pc' = [pc EXCEPT ![p] = "b_open"]
          /\ UNCHANGED lStart
    /\ UNCHANGED <<now, ticks, lockHolder, lockMtime, lElapsed, locked, viaStale,
                   waited, heldSince, wPos, ePos, exc, outcome, log, emPerm,
                   emTimeout, completed>>
    /\ UNCHANGED notStore

\* lines 374-391: one round of the loop. The flock succeeds (the lock file is
\* touched and the body entered), or it raises BlockingIOError: elapsed is
\* computed, the lock file's age is compared with stale_threshold (a failing
\* stat is ignored, line 422).
LTry(p) ==
    /\ pc[p] = "l_try"
    /\ IF FlockNB(p)
       THEN /\ lockHolder' = p
            /\ lockMtime' = now
            /\ heldSince' = now
            /\ locked' = [locked EXCEPT ![p] = TRUE]
            /\ pc' = [pc EXCEPT ![p] = "b_open"]
            /\ lStart' = [lStart EXCEPT ![p] = 0]
            /\ lElapsed' = [lElapsed EXCEPT ![p] = 0]
            /\ UNCHANGED waited
       ELSE /\ lElapsed' = [lElapsed EXCEPT ![p] = now - lStart[p]]
            /\ UNCHANGED lStart
            /\ waited' = [waited EXCEPT ![p] = TRUE]
            /\ \/ /\ now - lockMtime > StaleThreshold
                  /\ pc' = [pc EXCEPT ![p] = "l_stale"]
               \/ /\ now - lockMtime <= StaleThreshold
                  /\ pc' = [pc EXCEPT ![p] = "l_check"]
               \/ pc' = [pc EXCEPT ![p] = "l_check"]
            /\ UNCHANGED <<lockHolder, lockMtime, heldSince, locked>>
    /\ UNCHANGED <<now, ticks, viaStale, wPos, ePos, exc, outcome, log,
                   emPerm, emTimeout, completed>>
    /\ UNCHANGED notStore

\* lines 402-420: the lock file is older than stale_threshold: one more
\* non-blocking flock. It succeeds only if the holder has released the lock;
\* a lock still held is logged and the wait goes on.
LStaleTry(p) ==
    /\ pc[p] = "l_stale"
    /\ IF StaleFlockNB(p)
       THEN /\ lockHolder' = p
            /\ lockMtime' = now
            /\ heldSince' = now
            /\ locked' = [locked EXCEPT ![p] = TRUE]
            /\ viaStale' = [viaStale EXCEPT ![p] = TRUE]
            /\ pc' = [pc EXCEPT ![p] = "b_open"]
            /\ lStart' = [lStart EXCEPT ![p] = 0]
            /\ lElapsed' = [lElapsed EXCEPT ![p] = 0]
       ELSE /\ pc' = [pc EXCEPT ![p] = "l_check"]
            /\ UNCHANGED <<lockHolder, lockMtime, heldSince, locked, viaStale,
                           lStart, lElapsed>>
    /\ UNCHANGED <<now, ticks, waited, wPos, ePos, exc, outcome,
                   log, emPerm, emTimeout, completed>>
    /\ UNCHANGED notStore

\* lines 425-437: past the timeout TimeoutError is raised (and the finally at
\* 441 runs); otherwise sleep and try again.
LCheck(p) ==
    /\ pc[p] = "l_check"
    /\ IF lElapsed[p] > Timeout
       THEN /\ exc' = [exc EXCEPT ![p] = "TimeoutError"]
            /\ pc' = [pc EXCEPT ![p] = "l_release"]
            /\ lStart' = [lStart EXCEPT ![p] = 0]
            /\ lElapsed' = [lElapsed EXCEPT ![p] = 0]
       ELSE /\ pc' = [pc EXCEPT ![p] = "l_try"]
            /\ UNCHANGED <<exc, lStart, lElapsed>>
    /\ UNCHANGED <<now, ticks, lockHolder, lockMtime, locked,
                   viaStale, waited, heldSince, wPos, ePos, outcome, log, emPerm,
                   emTimeout, completed>>
    /\ UNCHANGED notStore

\* line 503: open(self.failure_log, "a"), the first statement of the body.
BOpen(p) ==
    /\ pc[p] = "b_open"
    /\ \/ /\ log' = OpenAppend(log)
          /\ pc' = [pc EXCEPT ![p] = "b_write"]
          /\ UNCHANGED exc
       \/ /\ \E e \in {"PermissionError", "OSError"} :
                exc' = [exc EXCEPT ![p] = e]
          /\ pc' = [pc EXCEPT ![p] = "l_release"]
          /\ UNCHANGED log
    /\ UNCHANGED <<now, ticks, lockHolder, lockMtime, lStart, lElapsed, locked,
                   viaStale, waited, heldSince, wPos, ePos, outcome, emPerm,
                   emTimeout, completed>>
    /\ UNCHANGED notStore

\* lines 504-506: write, flush, fsync: the parts of the line are appended one
\* after the other; with the last one the append is complete. An I/O error
\* ends the write where it is.
BWrite(p) ==
    /\ pc[p] = "b_write"
    /\ \/ /\ log' = Append(log, RecordParts(p)[wPos[p] + 1])
          /\ wPos' = [wPos EXCEPT ![p] = @ + 1]
          /\ IF wPos[p] + 1 = Len(RecordParts(p))
             THEN /\ completed' = Append(completed, p)
                  /\ pc' = [pc EXCEPT ![p] = "l_release"]
             ELSE UNCHANGED <<completed, pc>>
          /\ UNCHANGED exc
       \/ /\ exc' = [exc EXCEPT ![p] = "OSError"]
          /\ pc' = [pc EXCEPT ![p] = "l_release"]
          /\ UNCHANGED <<log, wPos, completed>>
    /\ UNCHANGED <<now, ticks, lockHolder, lockMtime, lStart, lElapsed, locked,
                   viaStale, waited, heldSince, ePos, outcome, emPerm, emTimeout>>
    /\ UNCHANGED notStore

\* fcntl.flock(fd, LOCK_UN) at line 443: the holder of the lock after p
\* unlocked its own descriptor; a lock held through another process's
\* descriptor is not released by it.
FlockUN_Any(p) == NoProc

FlockUN_Never(p) == lockHolder

FlockUN(p) == IF lockHolder = p THEN NoProc ELSE lockHolder

\* lines 441-450: the way out of file_lock: the finally releases the flock this
\* process holds (nothing to release when the body ran without a lock) and
\* closes the descriptor. The body's result or exception goes to log_failure.
LRelease(p) ==
    /\ pc[p] = "l_release"
    /\ lockHolder' = FlockUN(p)
    /\ heldSince' = IF lockHolder = p THEN 0 ELSE heldSince
    /\ viaStale' = [viaStale EXCEPT ![p] = FALSE]
    /\ waited' = [waited EXCEPT ![p] = FALSE]
    /\ IF exc[p] = "none"
       THEN /\ outcome' = [outcome EXCEPT ![p] = "primary"]
            /\ pc' = [pc EXCEPT ![p] = "done"]
       ELSE /\ pc' = [pc EXCEPT ![p] = "handler"]
            /\ UNCHANGED outcome
    /\ UNCHANGED <<now, ticks, lockMtime, lStart, lElapsed, locked,
                   wPos, ePos, exc, log, emPerm, emTimeout, completed>>
    /\ UNCHANGED notStore

\* lines 514-546 and 547-581: the handlers of PermissionError and of
\* TimeoutError append the record and a warning line to their emergency log
\* (without a lock); when that write fails, RuntimeError naming the emergency
\* log is raised.
EmergencyWrite(p) ==
    /\ pc[p] = "handler"
    /\ HasEmergencyHandler(exc[p])
    /\ \/ /\ IF EmergencyLogOf(exc[p]) = "perm"
             THEN /\ emPerm' = Append(emPerm, EmergencyParts(p)[ePos[p] + 1])
                  /\ UNCHANGED emTimeout
             ELSE /\ emTimeout' = Append(emTimeout, EmergencyParts(p)[ePos[p] + 1])
                  /\ UNCHANGED emPerm
          /\ ePos' = [ePos EXCEPT ![p] = @ + 1]
          /\ IF ePos[p] + 1 = Len(EmergencyParts(p))
             THEN /\ outcome' = [outcome EXCEPT ![p] = "emergency"]
                  /\ pc' = [pc EXCEPT ![p] = "done"]
             ELSE UNCHANGED <<outcome, pc>>
       \/ /\ outcome' = [outcome EXCEPT ![p] = "RuntimeError"]
          /\ pc' = [pc EXCEPT ![p] = "done"]
          /\ UNCHANGED <<emPerm, emTimeout, ePos>>
    /\ UNCHANGED <<now, ticks, lockHolder, lockMtime, lStart, lElapsed, locked,
                   viaStale, waited, heldSince, wPos, exc, log, completed>>
    /\ UNCHANGED notStore

\* log_failure has no handler for any other exception of the primary write: it
\* reaches the caller as it is.
Propagate(p) ==
    /\ pc[p] = "handler"
    /\ ~HasEmergencyHandler(exc[p])
    /\ outcome' = [outcome EXCEPT ![p] = exc[p]]
    /\ pc' = [pc EXCEPT ![p] = "done"]
    /\ UNCHANGED <<now, ticks, lockHolder, lockMtime, lStart, lElapsed, locked,
                   viaStale, waited, heldSince, wPos, ePos, exc, log, emPerm,
                   emTimeout, completed>>
    /\ UNCHANGED notStore

Next ==
    \/ Tick
    \/ \E p \in LProcs :
        \/ LTouch(p)
        \/ LOpen(p)
        \/ LTry(p)
        \/ LStaleTry(p)
        \/ LCheck(p)
        \/ BOpen(p)
        \/ BWrite(p)
        \/ LRelease(p)
        \/ EmergencyWrite(p)
        \/ Propagate(p)

(***************************************************************************)
(* The operations on a session's files                                     *)
(***************************************************************************)

\* The state after FailureTracker() ran once: sessions/<id> exists and holds
\* session-info.json (lines 150-153, 462-472).
InitOps ==
    /\ oNow = 0
    /\ gens = 1
    /\ dirAt = [g \in Gens |-> IF g = 1 THEN ActiveDir ELSE NoDir]
    /\ info = [g \in Gens |-> IF g = 1 THEN 0 ELSE NoInfo]
    /\ flog = [g \in Gens |-> NoFile]
    /\ alertFile = [g \in Gens |-> NoFile]
    /\ emergFile = [g \in Gens |-> <<>>]
    /\ tmpEmerg = <<>>
    /\ recCtr = 0
    /\ appended = [g \in Gens |-> <<>>]
    /\ ret = <<"FailureTracker", "none", 0>>

\* The directories at sessions/<id> (at most one).
ActiveGens == {g \in Gens : dirAt[g] = ActiveDir}

\* The directory self.session_dir names now.
SessionDir == CHOOSE g \in ActiveGens : TRUE

\* What a file holds, nothing when it does not exist.
Bytes(f) == IF f = NoFile THEN <<>> ELSE f

\* A part that ends its line (the record's last part, the warning line).
EndsLine(part) == part[2] \in {"tail", "marker"}

\* `for line in f` (lines 647, 658; pattern_detector.py 136): the complete
\* lines of a file, in order; parts after the last newline are a torn line
\* and not among them.
RECURSIVE LinesFrom(_, _)
LinesFrom(parts, cur) ==
    IF parts = <<>> THEN <<>>
    ELSE IF EndsLine(Head(parts))
         THEN <<Append(cur, Head(parts))>> \o LinesFrom(Tail(parts), <<>>)
         ELSE LinesFrom(Tail(parts), Append(cur, Head(parts)))

Lines(parts) == LinesFrom(parts, <<>>)

\* json.loads(line) succeeds (lines 649-654): the line is one whole record.
ParsesAsRecord(line) ==
    /\ Len(line) = 2
    /\ line[1][2] = "head" /\ line[2][2] = "tail"
    /\ line[1][1] = line[2][1]

\* The records a reader gets from a file: the lines that parse, the others
\* are skipped.
Records(parts) == SelectSeq(Lines(parts), ParsesAsRecord)

\* date_str of line 790: the day of a start time.
DateOf(t) == t \div DayLen

\* The alerts analyze_patterns builds (lines 679-693): one recurring_error
\* alert with its occurrences when the records reach PATTERN_THRESHOLD.
AlertsFor(records) ==
    IF Len(records) >= PatternThreshold THEN Len(records) ELSE 0

\* alert_data of lines 723-728, the content of alerts.json.
AlertData(alerts) == <<"alerts", alerts>>

\* len(all_failures) of analyze_recent: the records read over a set of
\* directories.
RECURSIVE TotalRecords(_)
TotalRecords(S) ==
    IF S = {} THEN 0
    ELSE LET g == CHOOSE x \in S : TRUE
         IN  Len(Records(Bytes(flog[g]))) + TotalRecords(S \ {g})

OTick ==
    /\ oNow < MaxTime
    /\ oNow' = oNow + 1
    /\ UNCHANGED <<gens, dirAt, info, flog, alertFile, emergFile, tmpEmerg,
                   recCtr, appended, ret>>
    /\ UNCHANGED notOps

\* FailureTracker() in a process that resolves to the session id (lines
\* 150-153, 462-472, 254-272): mkdir(exist_ok) of sessions/<id> and, when
\* session-info.json is not there, its creation with start_time = now.
\* With the directory and its info in place nothing changes.
Construct ==
    /\ ActiveGens = {}
    /\ gens < MaxGens
    /\ gens' = gens + 1
    /\ dirAt' = [dirAt EXCEPT ![gens + 1] = ActiveDir]
    /\ info' = [info EXCEPT ![gens + 1] = oNow]
    /\ ret' = <<"FailureTracker", "none", 0>>
    /\ UNCHANGED <<oNow, flog, alertFile, emergFile, tmpEmerg, recCtr, appended>>
    /\ UNCHANGED notOps

\* log_failure (lines 474-581) as a whole. Without the session directory
\* lock_file.touch (350) raises FileNotFoundError. Otherwise the record is
\* appended to failures.jsonl (503-506); or the write fails midway with an
\* OSError; or PermissionError, resp. TimeoutError, sends the record and a
\* warning line to the emergency log, RuntimeError being raised if that fails.
LogFailure ==
    /\ recCtr < MaxRecords
    /\ recCtr' = recCtr + 1
    /\ LET n == recCtr + 1 IN
       IF ActiveGens = {}
       THEN /\ ret' = <<"log_failure", "FileNotFoundError", 0>>
            /\ UNCHANGED <<flog, appended, tmpEmerg, emergFile>>
       ELSE LET g == SessionDir IN
            \/ /\ flog' = [flog EXCEPT ![g] = OpenAppend(Bytes(@)) \o RecordParts(n)]
               /\ appended' = [appended EXCEPT ![g] = Append(@, n)]
               /\ ret' = <<"log_failure", "none", 0>>
               /\ UNCHANGED <<tmpEmerg, emergFile>>
            \/ /\ flog' = [flog EXCEPT ![g] =
                              Append(OpenAppend(Bytes(@)), RecordParts(n)[1])]
               /\ ret' = <<"log_failure", "OSError", 0>>
               /\ UNCHANGED <<appended, tmpEmerg, emergFile>>
            \/ /\ tmpEmerg' = tmpEmerg \o EmergencyParts(n)
               /\ ret' = <<"log_failure", "none", 0>>
               /\ UNCHANGED <<flog, appended, emergFile>>
            \/ /\ emergFile' = [emergFile EXCEPT ![g] = @ \o EmergencyParts(n)]
               /\ ret' = <<"log_failure", "none", 0>>
               /\ UNCHANGED <<flog, appended, tmpEmerg>>
            \/ /\ ret' = <<"log_failure", "RuntimeError", 0>>
               /\ UNCHANGED <<flog, appended, tmpEmerg, emergFile>>
    /\ UNCHANGED <<oNow, gens, dirAt, info, alertFile>>
    /\ UNCHANGED notOps

\* analyze_patterns (lines 632-718): reads failures.jsonl, under the lock or,
\* after TimeoutError, without it; nothing is written.
\* What analyze_patterns finds in the session's failures.jsonl (lines 637-638:
\* [] without the file).
CurrentAlerts ==
    IF ActiveGens = {} \/ flog[SessionDir] = NoFile
    THEN 0
    ELSE AlertsFor(Records(flog[SessionDir]))

AnalyzePatterns ==
    /\ ret' = <<"analyze_patterns", "none", CurrentAlerts>>
    /\ UNCHANGED <<oNow, gens, dirAt, info, flog, alertFile, emergFile, tmpEmerg,
                   recCtr, appended>>
    /\ UNCHANGED notOps

\* save_alerts(alerts) (lines 720-732), alerts given by its occurrences (0:
\* an empty list): atomic_write of alerts.json when there are any; mkstemp
\* raises FileNotFoundError when the session directory is not there. Callers
\* pass what analyze_patterns returns (main(), lines 841-844) or nothing.
SaveAlerts(alerts) ==
    /\ IF alerts = 0
       THEN /\ ret' = <<"save_alerts", "none", 0>>
            /\ UNCHANGED alertFile
       ELSE IF ActiveGens = {}
            THEN /\ ret' = <<"save_alerts", "FileNotFoundError", 0>>
                 /\ UNCHANGED alertFile
            ELSE /\ alertFile' = [alertFile EXCEPT ![SessionDir] = AlertData(alerts)]
                 /\ ret' = <<"save_alerts", "none", 0>>
    /\ UNCHANGED <<oNow, gens, dirAt, info, flog, emergFile, tmpEmerg, recCtr,
                   appended>>
    /\ UNCHANGED notOps

\* get_pending_alerts (lines 734-745): reads alerts.json; [] without it.
GetPendingAlerts ==
    /\ ret' = <<"get_pending_alerts", "none",
                IF ActiveGens = {} \/ alertFile[SessionDir] = NoFile
                THEN 0
                ELSE alertFile[SessionDir][2]>>
    /\ UNCHANGED <<oNow, gens, dirAt, info, flog, alertFile, emergFile, tmpEmerg,
                   recCtr, appended>>
    /\ UNCHANGED notOps

\* clear_alerts (lines 747-753): unlinks alerts.json when it exists.
ClearAlerts ==
    /\ alertFile' = IF ActiveGens = {} THEN alertFile
                    ELSE [alertFile EXCEPT ![SessionDir] = NoFile]
    /\ ret' = <<"clear_alerts", "none", 0>>
    /\ UNCHANGED <<oNow, gens, dirAt, info, flog, emergFile, tmpEmerg, recCtr,
                   appended>>
    /\ UNCHANGED notOps

\* Where shutil.move(session_dir, dest) of line 797 puts directory g for
\* dest = archive/<date>/<id>: at dest when nothing is there; inside the
\* directory that is there, as dest/<id>; and when that exists too it raises
\* shutil.Error (an OSError, caught at 804) and g stays.
MovedTo(g, date) ==
    IF \A h \in Gens : dirAt[h] # <<"archive", date>>
    THEN <<"archive", date>>
    ELSE IF \A h \in Gens : dirAt[h] # <<"nested", date>>
         THEN <<"nested", date>>
         ELSE dirAt[g]

\* cleanup_old_sessions(days) (lines 755-815): every directory of sessions/
\* whose session-info.json has a start_time before the cutoff is moved to
\* archive/<date of start_time>/<id>; its files go with it.
CleanupOldSessions(days) ==
    /\ LET cutoff == oNow - days * DayLen
           aged == {g \in ActiveGens : info[g] # NoInfo /\ info[g] < cutoff}
       IN  /\ dirAt' = [g \in Gens |->
                          IF g \in aged THEN MovedTo(g, DateOf(info[g]))
                          ELSE dirAt[g]]
           /\ ret' = <<"cleanup_old_sessions", "none",
                       Cardinality({g \in aged :
                                      MovedTo(g, DateOf(info[g])) # dirAt[g]})>>
    /\ UNCHANGED <<oNow, gens, info, flog, alertFile, emergFile, tmpEmerg, recCtr,
                   appended>>
    /\ UNCHANGED notOps

\* analyze_recent (pattern_detector.py lines 35-122): reads failures.jsonl of
\* every directory of sessions/ and of archive/<date>/; nothing is written.
AnalyzeRecent ==
    /\ ret' = <<"analyze_recent", "none",
                TotalRecords({g \in Gens : dirAt[g][1] \in {"sessions", "archive"}})>>
    /\ UNCHANGED <<oNow, gens, dirAt, info, flog, alertFile, emergFile, tmpEmerg,
                   recCtr, appended>>
    /\ UNCHANGED notOps

NextOps ==
    \/ OTick
    \/ Construct
    \/ LogFailure
    \/ AnalyzePatterns
    \/ \E alerts \in {0, CurrentAlerts} : SaveAlerts(alerts)
    \/ GetPendingAlerts
    \/ ClearAlerts
    \/ \E days \in {0, 1} : CleanupOldSessions(days)
    \/ AnalyzeRecent

(***************************************************************************)
(* The alert file: save_alerts, get_pending_alerts, clear_alerts           *)
(***************************************************************************)

InitAlert ==
    /\ alPc = [p \in AlProcs |-> "idle"]
    /\ alLock = NoProc
    /\ alFile = NoFile
    /\ alGot = [p \in AlProcs |-> 0]
    /\ alActor = NoProc

\* The alert lists a caller passes to save_alerts, by their occurrences
\* (0: the empty list).
AlertInputs == {0, PatternThreshold, PatternThreshold + 1}

\* save_alerts(alerts) (lines 720-732): with alerts, atomic_write replaces
\* alerts.json by one rename; no file_lock is taken.
AlSave(p, alerts) ==
    /\ alPc[p] = "idle"
    /\ alFile' = IF alerts # 0 THEN AlertData(alerts) ELSE alFile
    /\ alActor' = p
    /\ UNCHANGED <<alPc, alLock, alGot>>
    /\ UNCHANGED notAlert

\* get_pending_alerts, lines 736-737: [] when alerts.json does not exist.
AlGetExists(p) ==
    /\ alPc[p] = "idle"
    /\ IF alFile = NoFile
       THEN /\ alGot' = [alGot EXCEPT ![p] = 0]
            /\ UNCHANGED alPc
       ELSE /\ alPc' = [alPc EXCEPT ![p] = "g_lock"]
            /\ UNCHANGED alGot
    /\ alActor' = p
    /\ UNCHANGED <<alLock, alFile>>
    /\ UNCHANGED notAlert

\* line 740: file_lock(self.alert_file): the lock is taken when it is free;
\* held by another process until the timeout, TimeoutError ends in [] (744).
AlGetLock(p) ==
    /\ alPc[p] = "g_lock"
    /\ IF alLock = NoProc
       THEN /\ alLock' = p
            /\ alPc' = [alPc EXCEPT ![p] = "g_read"]
            /\ UNCHANGED alGot
       ELSE /\ alGot' = [alGot EXCEPT ![p] = 0]
            /\ alPc' = [alPc EXCEPT ![p] = "idle"]
            /\ UNCHANGED alLock
    /\ alActor' = p
    /\ UNCHANGED alFile
    /\ UNCHANGED notAlert

\* lines 741-743: open and json.load under the lock; FileNotFoundError (the
\* file was unlinked meanwhile) ends in [] (744).
AlGetRead(p) ==
    /\ alPc[p] = "g_read"
    /\ alGot' = [alGot EXCEPT ![p] = IF alFile = NoFile THEN 0 ELSE alFile[2]]
    /\ alPc' = [alPc EXCEPT ![p] = "g_unlock"]
    /\ alActor' = p
    /\ UNCHANGED <<alLock, alFile>>
    /\ UNCHANGED notAlert

\* file_lock's finally (lines 441-450) on the way out of get_pending_alerts.
AlGetUnlock(p) ==
    /\ alPc[p] = "g_unlock"
    /\ alLock' = IF alLock = p THEN NoProc ELSE alLock
    /\ alPc' = [alPc EXCEPT ![p] = "idle"]
    /\ alActor' = p
    /\ UNCHANGED <<alFile, alGot>>
    /\ UNCHANGED notAlert

\* clear_alerts, line 749: self.alert_file.exists().
AlClearExists(p) ==
    /\ alPc[p] = "idle"
    /\ alFile # NoFile
    /\ alPc' = [alPc EXCEPT ![p] = "c_unlink"]
    /\ alActor' = p
    /\ UNCHANGED <<alLock, alFile, alGot>>
    /\ UNCHANGED notAlert

\* lines 750-753: unlink, an OSError (the file is gone already) is passed
\* over; no file_lock is taken.
AlClearUnlink(p) ==
    /\ alPc[p] = "c_unlink"
    /\ alFile' = NoFile
    /\ alPc' = [alPc EXCEPT ![p] = "idle"]
    /\ alActor' = p
    /\ UNCHANGED <<alLock, alGot>>
    /\ UNCHANGED notAlert

NextAlert ==
    \E p \in AlProcs :
        \/ \E alerts \in AlertInputs : AlSave(p, alerts)
        \/ AlGetExists(p)
        \/ AlGetLock(p)
        \/ AlGetRead(p)
        \/ AlGetUnlock(p)
        \/ AlClearExists(p)
        \/ AlClearUnlink(p)

(***************************************************************************)
(* Boot time and session key: actions                                      *)
(***************************************************************************)

\* int(_get_boot_time()) at line 174: the whole seconds of the time stamp.
BootTimeInt(v) == v \div TicksPerSecond

\* The names the key file can take: claude-session-<boot_time_int>-<ppid>.txt
\* with the one ppid all modelled processes share.
BootKeys == 0..BootTimeInt(MaxClock)

InitBoot ==
    /\ bNow = HostBoot
    /\ bMethod = 0
    /\ bEnv = [p \in BProcs |-> NoId]
    /\ bStart = [p \in BProcs |-> NoBoot]
    /\ bPc = [c \in BCalls |-> "start"]
    /\ bCache = [p \in BProcs |-> NoBoot]
    /\ bMutex = [p \in BProcs |-> 0]
    /\ bUptime = [c \in BCalls |-> NoBoot]
    /\ bBoot = [c \in BCalls |-> NoBoot]
    /\ bKeyFiles = [k \in BootKeys |-> NoId]
    /\ bUuid = 0
    /\ bResult = [c \in BCalls |-> NoId]

\* Lines 90-92: the second look at the cache, made with the lock held.
CacheHit_NoDoubleCheck(p) == FALSE

CacheHit(p) == bCache[p] # NoBoot

\* Lines 168-169: os.environ.get("CLAUDE_SESSION_ID") is a non-empty string.
HasEnvId_Ignored(p) == FALSE

HasEnvId(p) == bEnv[p] # NoId

\* The clock advances.
BTick ==
    /\ UNCHANGED <<notBoot, bMethod, bEnv, bStart, bPc, bCache, bMutex, bUptime,
                   bBoot, bKeyFiles, bUuid, bResult>>
    /\ bNow < MaxClock
    /\ bNow' = bNow + 1

\* The parent starts hook process p, with or without CLAUDE_SESSION_ID.
BSpawn(p) ==
    /\ UNCHANGED <<notBoot, bNow, bMethod, bPc, bCache, bMutex, bUptime, bBoot,
                   bKeyFiles, bUuid, bResult>>
    /\ bStart[p] = NoBoot
    /\ bStart' = [bStart EXCEPT ![p] = bNow]
    /\ \E e \in {NoId, ExtId} : bEnv' = [bEnv EXCEPT ![p] = e]

\* Lines 167-171 and 174, 86-87: the environment variable is returned as it
\* is; without it _get_boot_time is called and looks at the cache first.
BEnter(c) ==
    LET p == ProcOf(c) IN
    /\ UNCHANGED <<notBoot, bNow, bMethod, bEnv, bStart, bCache, bMutex, bUptime,
                   bKeyFiles, bUuid>>
    /\ bStart[p] # NoBoot
    /\ bPc[c] = "start"
    /\ IF HasEnvId(p)
       THEN /\ bResult' = [bResult EXCEPT ![c] = bEnv[p]]
            /\ bPc' = [bPc EXCEPT ![c] = "done"]
            /\ UNCHANGED bBoot
       ELSE IF bCache[p] # NoBoot
            THEN /\ bBoot' = [bBoot EXCEPT ![c] = bCache[p]]
                 /\ bPc' = [bPc EXCEPT ![c] = "key"]
                 /\ UNCHANGED bResult
            ELSE /\ bPc' = [bPc EXCEPT ![c] = "lock"]
                 /\ UNCHANGED <<bBoot, bResult>>

\* Lines 89-97 and 105-141: with _BOOT_TIME_CACHE_LOCK the cache is looked at
\* again; if it is still empty the first working method fills it: /proc/uptime
\* is read (method 1, finished in BUptime), or psutil.boot_time() (method 2),
\* the creation time of this process (method 3) or time.time() (method 4) is
\* stored and returned. The lock is released on return.
BLock(c) ==
    LET p == ProcOf(c) IN
    /\ UNCHANGED <<notBoot, bNow, bEnv, bStart, bKeyFiles, bUuid, bResult>>
    /\ bPc[c] = "lock"
    /\ bMutex[p] = 0
    /\ IF CacheHit(p)
       THEN /\ bBoot' = [bBoot EXCEPT ![c] = bCache[p]]
            /\ bPc' = [bPc EXCEPT ![c] = "key"]
            /\ UNCHANGED <<bMethod, bCache, bMutex, bUptime>>
       ELSE \E m \in (IF bMethod = 0 THEN 1..4 ELSE {bMethod}) :
            /\ bMethod' = m
            /\ IF m = 1
               THEN /\ bMutex' = [bMutex EXCEPT ![p] = c]
                    /\ bUptime' = [bUptime EXCEPT ![c] = bNow - HostBoot]
                    /\ bPc' = [bPc EXCEPT ![c] = "uptime"]
                    /\ UNCHANGED <<bCache, bBoot>>
               ELSE LET v == CASE m = 2 -> HostBoot
                               [] m = 3 -> bStart[p]
                               [] OTHER -> bNow
                    IN  /\ bCache' = [bCache EXCEPT ![p] = v]
                        /\ bBoot' = [bBoot EXCEPT ![c] = v]
                        /\ bPc' = [bPc EXCEPT ![c] = "key"]
                        /\ UNCHANGED <<bMutex, bUptime>>

\* Lines 100-103: boot_time = time.time() - uptime_seconds, cached and
\* returned; the clock may have moved since /proc/uptime was read.
BUptime(c) ==
    LET p == ProcOf(c) IN
    /\ UNCHANGED <<notBoot, bNow, bMethod, bEnv, bStart, bKeyFiles, bUuid, bResult>>
    /\ bPc[c] = "uptime"
    /\ LET v == bNow - bUptime[c]
       IN  /\ bCache' = [bCache EXCEPT ![p] = v]
           /\ bBoot' = [bBoot EXCEPT ![c] = v]
    /\ bMutex' = [bMutex EXCEPT ![p] = 0]
    /\ bUptime' = [bUptime EXCEPT ![c] = NoBoot]
    /\ bPc' = [bPc EXCEPT ![c] = "key"]

\* Lines 174-235 when the flock is granted and no file operation fails: the
\* key file named after int(boot time) and the ppid is read under its lock;
\* the id in it is returned, or a new uuid is written to it and returned.
BCheckAndCreate(c) ==
    LET p == ProcOf(c) IN
    /\ UNCHANGED <<notBoot, bNow, bMethod, bEnv, bStart, bCache, bMutex, bUptime,
                   bBoot>>
    /\ bPc[c] = "key"
    /\ LET k == BootTimeInt(bBoot[c])
       IN  IF bKeyFiles[k] # NoId
           THEN /\ bResult' = [bResult EXCEPT ![c] = bKeyFiles[k]]
                /\ UNCHANGED <<bKeyFiles, bUuid>>
           ELSE /\ bKeyFiles' = [bKeyFiles EXCEPT ![k] = Uuid4(bUuid)]
                /\ bResult' = [bResult EXCEPT ![c] = Uuid4(bUuid)]
                /\ bUuid' = bUuid + 1
    /\ bPc' = [bPc EXCEPT ![c] = "done"]

NextBoot ==
    \/ BTick
    \/ \E p \in BProcs : BSpawn(p)
    \/ \E c \in BCalls :
         \/ BEnter(c)
         \/ BLock(c)
         \/ BUptime(c)
         \/ BCheckAndCreate(c)

(***************************************************************************)
(* The commands of main(): actions                                         *)
(***************************************************************************)

InitCmd ==
    /\ cNow = 0
    /\ cLog = <<>>
    /\ cAlerts = NoFile
    /\ cRet = <<"none", 0>>

\* The records analyze_patterns keeps (lines 640, 651-653): those whose
\* timestamp is not before cutoff_time = now - lookback_hours * 3600.
RecentFailures(records, lookback) ==
    SelectSeq(records, LAMBDA timestamp : timestamp >= cNow - lookback)

\* analyze_patterns(lookback) (lines 632-718): [] without records in the
\* window, otherwise the alerts of the records in the window.
AnalyzeWindow(lookback) == AlertsFor(RecentFailures(cLog, lookback))

\* What save_alerts(alerts) leaves in alerts.json (lines 720-732): the new
\* snapshot, or what was there when alerts is empty.
SavedAlerts(alerts) == IF alerts # 0 THEN AlertData(alerts) ELSE cAlerts

\* The clock advances.
CmdTick ==
    /\ UNCHANGED <<notCmd, cLog, cAlerts, cRet>>
    /\ cNow < MaxHours
    /\ cNow' = cNow + 1

\* The log command with a failing event (lines 835-840, 474-506): a record
\* with the timestamp of now is appended to failures.jsonl.
CmdLog ==
    /\ UNCHANGED <<notCmd, cNow, cAlerts>>
    /\ Len(cLog) < MaxLogged
    /\ cLog' = Append(cLog, cNow)
    /\ cRet' = <<"log", 0>>

\* The analyze command (lines 841-844): analyze_patterns(lookback_hours=1),
\* and save_alerts of its result when it is not empty.
CmdAnalyze ==
    /\ UNCHANGED <<notCmd, cNow, cLog>>
    /\ LET alerts == AnalyzeWindow(Lookback)
       IN  /\ cAlerts' = SavedAlerts(alerts)
           /\ cRet' = <<"analyze", alerts>>

\* The alerts command (lines 846-848, 734-745): prints the alerts of
\* alerts.json, [] when the file is not there.
CmdAlerts ==
    /\ UNCHANGED <<notCmd, cNow, cLog, cAlerts>>
    /\ cRet' = <<"alerts", IF cAlerts = NoFile THEN 0 ELSE cAlerts[2]>>

\* The clear command (lines 850-851, 747-753): unlinks alerts.json.
CmdClear ==
    /\ UNCHANGED <<notCmd, cNow, cLog>>
    /\ cAlerts' = NoFile
    /\ cRet' = <<"clear", 0>>

NextCmd ==
    \/ CmdTick
    \/ CmdLog
    \/ CmdAnalyze
    \/ CmdAlerts
    \/ CmdClear

(***************************************************************************)
(* analyze_patterns (failure_tracker.py lines 632-718)                     *)
(***************************************************************************)
\* A line that parses to an object with the given keys.
ObjectLine(keys, timestamp, error_type, tool_input) ==
    [json |-> "object", keys |-> keys, timestamp |-> timestamp,
     error_type |-> error_type, tool_input |-> tool_input]

\* The record log_failure builds (lines 480-489): every key is there.
FailureRecord(timestamp, error_type, tool_input) ==
    ObjectLine(RecordKeys, timestamp, error_type, tool_input)

\* Lines log_failure does not write: text that is not JSON (a torn line
\* among them), JSON that is not an object, an object without error_type,
\* and an object whose tool_input is null.
Unparsable == [json |-> "invalid", keys |-> {}, timestamp |-> 0,
               error_type |-> "", tool_input |-> NoCommand]
NonObject == [json |-> "array", keys |-> {}, timestamp |-> 0,
              error_type |-> "", tool_input |-> NoCommand]
NoErrorType(timestamp) ==
    ObjectLine(RecordKeys \ {"error_type"}, timestamp, "", NoCommand)
NullToolInput(timestamp) == FailureRecord(timestamp, "file_not_found", NullInput)

LoggedRecords(timestamp) ==
    {FailureRecord(timestamp, k, ti) : k \in Kinds, ti \in {NoCommand} \cup Commands}
    \ {FailureRecord(timestamp, "command_failed", <<"dict", "ls", " -l">>)}

ForeignLines(timestamp) ==
    {Unparsable, NonObject, NoErrorType(timestamp), NullToolInput(timestamp)}

NoCall == [outcome |-> "none", alerts |-> <<>>, lookback_hours |-> 0]

InitPat ==
    /\ pNow = 0
    /\ pLog = <<>>
    /\ pRet = NoCall
    /\ pWin = <<>>

CutoffTime_Now(clock, lookback_hours) == clock

\* cutoff_time of line 640.
CutoffTime(clock, lookback_hours) == clock - lookback_hours * HourLen

\* The loop of lines 647-654: a line json.loads rejects and an object
\* without "timestamp" are skipped by the except clause; a parsed value
\* that is not an object makes record["timestamp"] raise TypeError, which
\* the clause does not name.
RECURSIVE ReadLines(_, _, _)
ReadLines(lines, cutoff_time, recent_failures) ==
    IF lines = <<>> THEN [raised |-> "", recent |-> recent_failures]
    ELSE LET record == Head(lines)
         IN  IF record.json = "invalid"
             THEN ReadLines(Tail(lines), cutoff_time, recent_failures)
             ELSE IF record.json # "object"
             THEN [raised |-> "TypeError", recent |-> recent_failures]
             ELSE IF "timestamp" \notin record.keys
             THEN ReadLines(Tail(lines), cutoff_time, recent_failures)
             ELSE IF record.timestamp >= cutoff_time
             THEN ReadLines(Tail(lines), cutoff_time, Append(recent_failures, record))
             ELSE ReadLines(Tail(lines), cutoff_time, recent_failures)

Prefix100_Whole(tool_input) == <<tool_input[2], tool_input[3]>>

\* tool_input["command"][:100] of line 700.
Prefix100(tool_input) == <<tool_input[2], "">>

\* failure.get("tool_input", {}) of line 698.
ToolInputOf(failure) ==
    IF "tool_input" \in failure.keys THEN failure.tool_input ELSE NoCommand

\* The keys of a defaultdict in the order of their first insertion.
RECURSIVE InsertionOrder(_, _)
InsertionOrder(keys, seen) ==
    IF keys = <<>> THEN seen
    ELSE IF \E i \in DOMAIN seen : seen[i] = Head(keys)
         THEN InsertionOrder(Tail(keys), seen)
         ELSE InsertionOrder(Tail(keys), Append(seen, Head(keys)))

\* "occurrences": len(failures) of lines 685 and 709.
Occurrences_Accumulated(failures) == Len(failures) + Len(pRet.alerts)

Occurrences(failures) == Len(failures)

\* The alert of lines 681-693 for one error type.
RecurringError(error_type, failures) ==
    [pattern_type |-> "recurring_error", error_type |-> error_type,
     command |-> <<>>, occurrences |-> Occurrences(failures),
     first_occurrence |-> failures[1].timestamp,
     last_occurrence |-> failures[Len(failures)].timestamp]

\* The alert of lines 705-716 for one command.
CommandRepeatedFailure(command, failures) ==
    [pattern_type |-> "command_repeated_failure", error_type |-> "",
     command |-> command, occurrences |-> Occurrences(failures),
     first_occurrence |-> failures[1].timestamp,
     last_occurrence |-> failures[Len(failures)].timestamp]

\* Lines 674-693: the groups by error type, in insertion order, and an
\* alert for each group of PATTERN_THRESHOLD failures or more.
ErrorTypeAlerts(recent_failures) ==
    LET types == InsertionOrder([i \in DOMAIN recent_failures |->
                                    recent_failures[i].error_type], <<>>)
        group(t) == SelectSeq(recent_failures, LAMBDA f : f.error_type = t)
        big == SelectSeq(types, LAMBDA t : Len(group(t)) >= PatternThreshold)
    IN  [i \in DOMAIN big |-> RecurringError(big[i], group(big[i]))]

\* Lines 696-716: the groups by the first 100 characters of the command.
CommandAlerts(recent_failures) ==
    LET with == SelectSeq(recent_failures, LAMBDA f : Len(ToolInputOf(f)) = 3)
        commands == InsertionOrder([i \in DOMAIN with |->
                                       Prefix100(ToolInputOf(with[i]))], <<>>)
        group(c) == SelectSeq(with, LAMBDA f : Prefix100(ToolInputOf(f)) = c)
        big == SelectSeq(commands, LAMBDA c : Len(group(c)) >= PatternThreshold)
    IN  [i \in DOMAIN big |-> CommandRepeatedFailure(big[i], group(big[i]))]

\* analyze_patterns, lines 632-718. failure["error_type"] of line 676
\* raises KeyError for a record without that key and "command" in
\* tool_input of line 699 raises TypeError for a null tool_input; neither
\* is inside a try.
AnalyzePatternsOf(lines, clock, lookback_hours) ==
    LET read == ReadLines(lines, CutoffTime(clock, lookback_hours), <<>>)
        recent_failures == read.recent
    IN  IF read.raised # ""
        THEN [outcome |-> read.raised, alerts |-> <<>>]
        ELSE IF recent_failures = <<>>
        THEN [outcome |-> "alerts", alerts |-> <<>>]
        ELSE IF \E i \in DOMAIN recent_failures :
                    "error_type" \notin recent_failures[i].keys
        THEN [outcome |-> "KeyError", alerts |-> <<>>]
        ELSE IF \E i \in DOMAIN recent_failures :
                    ToolInputOf(recent_failures[i]) = NullInput
        THEN [outcome |-> "TypeError", alerts |-> <<>>]
        ELSE [outcome |-> "alerts",
              alerts |-> ErrorTypeAlerts(recent_failures)
                         \o CommandAlerts(recent_failures)]

\* The lines of the log that are records with a timestamp inside the
\* window of a call.
WindowRecords(lines, clock, lookback_hours) ==
    SelectSeq(lines, LAMBDA l : /\ l.json = "object"
                                /\ "timestamp" \in l.keys
                                /\ l.timestamp >= clock - lookback_hours * HourLen)

\* Ten minutes pass.
PTick ==
    /\ pNow < MaxPNow
    /\ pNow' = pNow + 1
    /\ UNCHANGED <<notPat, pLog, pRet, pWin>>

\* log_failure appends one record with the time of the call (lines
\* 480-506); the call returns nothing.
PLog ==
    /\ Len(pLog) < MaxLines
    /\ \E r \in LoggedRecords(pNow) : pLog' = Append(pLog, r)
    /\ pRet' = NoCall
    /\ pWin' = <<>>
    /\ UNCHANGED <<notPat, pNow>>

\* Something other than log_failure leaves a line in the log: a write cut
\* short, or another writer of the file.
PForeign ==
    /\ Len(pLog) < MaxLines
    /\ \E l \in ForeignLines(pNow) : pLog' = Append(pLog, l)
    /\ pRet' = NoCall
    /\ pWin' = <<>>
    /\ UNCHANGED <<notPat, pNow>>

\* One call of analyze_patterns.
PAnalyze(lookback_hours) ==
    /\ LET r == AnalyzePatternsOf(pLog, pNow, lookback_hours)
       IN  pRet' = [outcome |-> r.outcome, alerts |-> r.alerts,
                    lookback_hours |-> lookback_hours]
    /\ pWin' = WindowRecords(pLog, pNow, lookback_hours)
    /\ UNCHANGED <<notPat, pNow, pLog>>

NextPat ==
    \/ PTick
    \/ PLog
    \/ PForeign
    \/ \E lookback_hours \in Lookbacks : PAnalyze(lookback_hours)

(***************************************************************************)
(* _extract_error_type (failure_tracker.py lines 583-611)                  *)
(***************************************************************************)
\* error_patterns of lines 590-602.
ErrorPatterns == <<
    <<"module_not_found", <<<<"ModuleNotFoundError">>, <<"No module named">>>>>>,
    <<"file_not_found", <<<<"FileNotFoundError">>, <<"No such", " file">>>>>>,
    <<"permission_denied", <<<<"PermissionError">>, <<"Permission denied">>>>>>,
    <<"syntax_error", <<<<"SyntaxError">>>>>>,
    <<"type_error", <<<<"TypeError">>>>>>,
    <<"pre_commit_failed", <<<<"pre-commit">>, <<"failed">>>>>>,
    <<"type_check_failed", <<<<"mypy">>, <<"error">>>>>>,
    <<"linting_failed", <<<<"ruff">>>>>>,
    <<"import_error", <<<<"ImportError">>, <<"cannot import">>>>>>,
    <<"test_failed", <<<<"FAILED">>, <<"ERROR">>, <<"test">>>>>>,
    <<"no_verify_used", <<<<"--no-verify">>>>>> >>

\* The chunks texts are made of.
Chunks ==
    {"..."} \cup
    UNION {UNION {{ErrorPatterns[r][2][p][c] : c \in DOMAIN ErrorPatterns[r][2][p]} :
                     p \in DOMAIN ErrorPatterns[r][2]} :
              r \in DOMAIN ErrorPatterns}

Texts(n) == [1..n -> Chunks]

\* The events whose stderr and stdout hold MaxChunks chunks at most.
Events ==
    UNION {UNION {[stderr : Texts(n), stdout : Texts(m), exit_code : ExitCodes] :
                     m \in 0..(MaxChunks - n)} :
              n \in 0..MaxChunks}

NoEvent == [stderr |-> <<>>, stdout |-> <<>>, exit_code |-> 0]

InitCls ==
    /\ clsEvent = NoEvent
    /\ clsType = "none"

\* pattern in combined (line 605).
Contains(combined, pattern) ==
    \E i \in 0..(Len(combined) - Len(pattern)) :
        \A j \in DOMAIN pattern : combined[i + j] = pattern[j]

\* combined of line 587.
Combined(event_data) == event_data.stderr \o event_data.stdout

\* any(pattern in combined for pattern in patterns) of line 605.
RuleMatches(rule, combined) ==
    \E p \in DOMAIN ErrorPatterns[rule][2] :
        Contains(combined, ErrorPatterns[rule][2][p])

\* Lines 607-611: no rule matched.
Fallback(event_data) ==
    IF event_data.exit_code # 0 THEN "command_failed" ELSE "unknown_error"

\* The loop of lines 604-606 from one rule on, then lines 608-611.
RECURSIVE MatchFrom(_, _)
MatchFrom(rule, event_data) ==
    IF rule > Len(ErrorPatterns) THEN Fallback(event_data)
    ELSE IF RuleMatches(rule, Combined(event_data)) THEN ErrorPatterns[rule][1]
    ELSE MatchFrom(rule + 1, event_data)

ExtractErrorType_LastMatch(event_data) ==
    LET matching == {r \in DOMAIN ErrorPatterns :
                        RuleMatches(r, Combined(event_data))}
    IN  IF matching = {} THEN Fallback(event_data)
        ELSE ErrorPatterns[CHOOSE r \in matching : \A q \in matching : q <= r][1]

ExtractErrorType(event_data) == MatchFrom(1, event_data)

\* main reads the event of a hook call from its standard input (line 836).
ClsRead ==
    /\ clsType = "none"
    /\ \E event_data \in Events : clsEvent' = event_data
    /\ clsType' = "pending"
    /\ UNCHANGED notCls

\* log_failure classifies the event (line 485).
Classify ==
    /\ clsType = "pending"
    /\ clsType' = ExtractErrorType(clsEvent)
    /\ UNCHANGED <<notCls, clsEvent>>

\* The process of the hook call ends.
ClsExit ==
    /\ clsType \notin {"none", "pending"}
    /\ clsEvent' = NoEvent
    /\ clsType' = "none"
    /\ UNCHANGED notCls

NextCls ==
    \/ ClsRead
    \/ Classify
    \/ ClsExit

(***************************************************************************)
(* PatternDetector.analyze_recent (pattern_detector.py lines 35-274)       *)
(***************************************************************************)
NoCounts == [i \in DOMAIN DetInputs |-> 0]

NoReport == [called |-> FALSE, total_failures |-> 0, patterns |-> <<>>]

InitDet ==
    /\ dNow = 0
    /\ dCount = NoCounts
    /\ dRet = NoReport
    /\ dWin = NoCounts

\* The number of lines counted in counts.
RECURSIVE TotalUpTo(_, _)
TotalUpTo(counts, i) ==
    IF i = 0 THEN 0 ELSE counts[i] + TotalUpTo(counts, i - 1)

Total(counts) == TotalUpTo(counts, Len(DetInputs))

\* _read_session_failures (lines 124-150) over every session directory
\* (lines 51-84): the records with timestamp >= cutoff, session by session
\* and in the order of each log.
RECURSIVE ReadFrom(_, _, _)
ReadFrom(i, counts, cutoff) ==
    IF i > Len(DetInputs) THEN <<>>
    ELSE (IF DetInputs[i].timestamp >= cutoff
          THEN [n \in 1..counts[i] |-> DetInputs[i]]
          ELSE <<>>) \o ReadFrom(i + 1, counts, cutoff)

CalculateSeverity_ByCount(occurrences, sessions) ==
    IF occurrences >= 10 THEN "CRITICAL"
    ELSE IF occurrences >= 5 THEN "HIGH"
    ELSE IF occurrences >= 3 THEN "MEDIUM"
    ELSE "LOW"

\* _calculate_severity, lines 256-266.
CalculateSeverity(occurrences, sessions) ==
    IF occurrences >= 10 /\ sessions >= 3 THEN "CRITICAL"
    ELSE IF occurrences >= 5 /\ sessions >= 2 THEN "HIGH"
    ELSE IF occurrences >= 3 THEN "MEDIUM"
    ELSE "LOW"

\* {f["session_id"] for f in failures}.
SessionsOf(failures) == {failures[i].session_id : i \in DOMAIN failures}

\* Counter.most_common(top) of lines 272-274: the (error type, count) pairs
\* by falling count, equal counts in the order the types were first met.
RECURSIVE MostCommonOf(_, _, _)
MostCommonOf(types, failures, top) ==
    IF top = 0 \/ types = <<>> THEN <<>>
    ELSE LET count(t) == Len(SelectSeq(failures, LAMBDA f : f.error_type = t))
             best == CHOOSE i \in DOMAIN types :
                        /\ \A j \in DOMAIN types : count(types[j]) <= count(types[i])
                        /\ \A j \in 1..(i - 1) : count(types[j]) < count(types[i])
             rest == SelectSeq(types, LAMBDA t : t # types[best])
         IN  <<<<types[best], count(types[best])>>>>
                 \o MostCommonOf(rest, failures, top - 1)

GetCommonErrors_All(failures, top) ==
    MostCommonOf(InsertionOrder([i \in DOMAIN failures |->
                                    failures[i].error_type], <<>>),
                 failures, Len(failures))

\* _get_common_errors, lines 268-274.
GetCommonErrors(failures, top) ==
    MostCommonOf(InsertionOrder([i \in DOMAIN failures |->
                                    failures[i].error_type], <<>>),
                 failures, top)

Pattern(type, error_type, tool_name, hostname, occurrences, sessions, severity, common_errors) ==
    [type |-> type, error_type |-> error_type, tool_name |-> tool_name,
     hostname |-> hostname, occurrences |-> occurrences,
     affected_sessions |-> sessions, severity |-> severity,
     common_errors |-> common_errors]

\* Pattern 1, lines 164-193.
RecurringErrorTypes(failures) ==
    LET types == InsertionOrder([i \in DOMAIN failures |->
                                    failures[i].error_type], <<>>)
        group(t) == SelectSeq(failures, LAMBDA f : f.error_type = t)
        big == SelectSeq(types, LAMBDA t : Len(group(t)) >= 3)
    IN  [i \in DOMAIN big |->
            LET error_failures == group(big[i])
                sessions == SessionsOf(error_failures)
            IN  Pattern("recurring_error_type", big[i], "", "",
                        Len(error_failures), Cardinality(sessions),
                        CalculateSeverity(Len(error_failures),
                                          Cardinality(sessions)),
                        <<>>)]

\* Pattern 2, lines 195-217.
ProblematicTools(failures) ==
    LET tools == InsertionOrder([i \in DOMAIN failures |->
                                    failures[i].tool_name], <<>>)
        group(t) == SelectSeq(failures, LAMBDA f : f.tool_name = t)
        big == SelectSeq(tools, LAMBDA t :
                   /\ Len(group(t)) >= 5
                   /\ Cardinality(SessionsOf(group(t))) >= 2)
    IN  [i \in DOMAIN big |->
            LET tool_failures == group(big[i])
                sessions == SessionsOf(tool_failures)
            IN  Pattern("problematic_tool", "", big[i], "",
                        Len(tool_failures), Cardinality(sessions),
                        CalculateSeverity(Len(tool_failures),
                                          Cardinality(sessions)),
                        GetCommonErrors(tool_failures, 3))]

MostlyOnHost_OrHalf(host_sessions, total_sessions) ==
    2 * host_sessions >= total_sessions

\* host_sessions / total_sessions > 0.5 of line 230, in whole numbers.
MostlyOnHost(host_sessions, total_sessions) ==
    2 * host_sessions > total_sessions

\* Pattern 3, lines 219-242.
HostSpecificIssues(failures) ==
    LET hosts == InsertionOrder([i \in DOMAIN failures |->
                                    failures[i].hostname], <<>>)
        group(h) == SelectSeq(failures, LAMBDA f : f.hostname = h)
        big == SelectSeq(hosts, LAMBDA h :
                   /\ Len(group(h)) >= 10
                   /\ MostlyOnHost(Cardinality(SessionsOf(group(h))),
                                   Cardinality(SessionsOf(failures))))
    IN  [i \in DOMAIN big |->
            LET host_failures == group(big[i])
            IN  Pattern("host_specific_issue", "", "", big[i],
                        Len(host_failures),
                        Cardinality(SessionsOf(host_failures)),
                        "HIGH", GetCommonErrors(host_failures, 3))]

\* The sort key of lines 245-252.
SeverityRank(severity) ==
    CASE severity = "CRITICAL" -> 0
      [] severity = "HIGH" -> 1
      [] severity = "MEDIUM" -> 2
      [] OTHER -> 3

ComesBefore(p, q) ==
    \/ SeverityRank(p.severity) < SeverityRank(q.severity)
    \/ /\ SeverityRank(p.severity) = SeverityRank(q.severity)
       /\ p.occurrences > q.occurrences

SortPatterns_Unsorted(patterns) == patterns

\* list.sort of line 245: a stable sort by that key.
RECURSIVE SortPatterns(_)
SortPatterns(patterns) ==
    IF patterns = <<>> THEN <<>>
    ELSE LET last == patterns[Len(patterns)]
             sorted == SortPatterns(SubSeq(patterns, 1, Len(patterns) - 1))
             before == SelectSeq(sorted, LAMBDA q : ~ComesBefore(last, q))
             after == SelectSeq(sorted, LAMBDA q : ComesBefore(last, q))
         IN  before \o <<last>> \o after

\* _detect_patterns, lines 152-254.
DetectPatterns(failures) ==
    SortPatterns(RecurringErrorTypes(failures) \o ProblematicTools(failures)
                 \o HostSpecificIssues(failures))

\* analyze_recent, lines 35-122.
AnalyzeRecentOf(counts, clock, days) ==
    LET all_failures == ReadFrom(1, counts, clock - days)
    IN  IF all_failures = <<>>
        THEN [called |-> TRUE, total_failures |-> 0, patterns |-> <<>>]
        ELSE [called |-> TRUE, total_failures |-> Len(all_failures),
              patterns |-> DetectPatterns(all_failures)]

\* The lines inside the window of a call, counted by record.
WindowCounts(counts, clock, days) ==
    [i \in DOMAIN DetInputs |->
        IF DetInputs[i].timestamp >= clock - days THEN counts[i] ELSE 0]

\* A day passes.
DTick ==
    /\ dNow < MaxDay
    /\ dNow' = dNow + 1
    /\ UNCHANGED <<notDet, dCount, dRet, dWin>>

\* A session logs a failure: log_failure appends the record to the end of
\* the session's log, with the time of the call.
DLogFailure ==
    /\ Total(dCount) < MaxFailures
    /\ \E i \in DOMAIN DetInputs :
          /\ DetInputs[i].timestamp = dNow
          /\ \A j \in DOMAIN DetInputs :
                (j > i /\ DetInputs[j].session_id = DetInputs[i].session_id)
                    => dCount[j] = 0
          /\ dCount' = [dCount EXCEPT ![i] = @ + 1]
    /\ dRet' = NoReport
    /\ dWin' = NoCounts
    /\ UNCHANGED <<notDet, dNow>>

\* One call of analyze_recent.
DAnalyzeRecent(days) ==
    /\ dRet' = AnalyzeRecentOf(dCount, dNow, days)
    /\ dWin' = WindowCounts(dCount, dNow, days)
    /\ UNCHANGED <<notDet, dNow, dCount>>

NextDet ==
    \/ DTick
    \/ DLogFailure
    \/ \E days \in DaysBack : DAnalyzeRecent(days)

(***************************************************************************)
(* cleanup_old_sessions (lines 755-815) and log_failure (lines 500-506)    *)
(***************************************************************************)
\* The state after FailureTracker() ran once.
InitArch ==
    /\ arNow = 0
    /\ arGens = 1
    /\ arDirAt = [g \in Gens |-> IF g = 1 THEN ActiveDir ELSE NoDir]
    /\ arInfo = [g \in Gens |-> IF g = 1 THEN 0 ELSE NoInfo]
    /\ arLog = [g \in Gens |-> <<>>]
    /\ arPc = "idle"
    /\ arFd = 0
    /\ arRecs = 0
    /\ arBefore = 0
    /\ arAtMove = [g \in Gens |-> <<>>]
    /\ arLate = [g \in Gens |-> FALSE]

\* The directory at sessions/<id>, if any.
ArActive == {g \in Gens : arDirAt[g] = ActiveDir}

\* The directories under archive/.
ArArchived == {g \in Gens : arDirAt[g][1] \in {"archive", "nested"}}

\* The records of the failure logs under sessions/ and archive/.
RECURSIVE ArRecordsIn(_)
ArRecordsIn(S) ==
    IF S = {} THEN 0
    ELSE LET g == CHOOSE x \in S : TRUE
         IN  Len(arLog[g]) + ArRecordsIn(S \ {g})

ArTotal == ArRecordsIn(ArActive \cup ArArchived)

\* dest of line 791: archive/<date>/<id>.
ArchiveDest(date) == <<"archive", date>>

\* shutil.move(session_dir, dest) of line 797, a rename: to dest when
\* nothing is there, into the directory that is there otherwise, and
\* shutil.Error (caught at 804) when that place is taken too.
ArMovedTo(g, date) ==
    IF \A h \in Gens : arDirAt[h] # <<"archive", date>>
    THEN ArchiveDest(date)
    ELSE IF \A h \in Gens : arDirAt[h] # <<"nested", date>>
         THEN <<"nested", date>>
         ELSE arDirAt[g]

ArTick ==
    /\ arNow < MaxTime
    /\ arNow' = arNow + 1
    /\ UNCHANGED <<notArch, arGens, arDirAt, arInfo, arLog, arPc, arFd, arRecs,
                   arBefore, arAtMove, arLate>>

\* FailureTracker() when sessions/<id> is not there (lines 462-472): the
\* directory is made again, with a new session-info.json.
ArConstruct ==
    /\ ArActive = {}
    /\ arPc = "idle"
    /\ arGens < MaxGens
    /\ arGens' = arGens + 1
    /\ arDirAt' = [arDirAt EXCEPT ![arGens + 1] = ActiveDir]
    /\ arInfo' = [arInfo EXCEPT ![arGens + 1] = arNow]
    /\ UNCHANGED <<notArch, arNow, arLog, arPc, arFd, arRecs, arBefore,
                   arAtMove, arLate>>

\* log_failure enters file_lock (lines 500-501, 349-376): lock_file.touch
\* raises FileNotFoundError without the session directory, and the call
\* ends with nothing written.
ArLock ==
    /\ arPc = "idle"
    /\ arRecs < MaxRecords
    /\ arRecs' = arRecs + 1
    /\ arPc' = IF ArActive = {} THEN "idle" ELSE "locked"
    /\ UNCHANGED <<notArch, arNow, arGens, arDirAt, arInfo, arLog, arFd,
                   arBefore, arAtMove, arLate>>

\* open(self.failure_log, "a") of line 502: the file of the directory that
\* is at sessions/<id> now; FileNotFoundError without that directory.
ArOpen ==
    /\ arPc = "locked"
    /\ IF ArActive = {}
       THEN /\ arPc' = "idle"
            /\ UNCHANGED <<arFd, arLog>>
       ELSE LET g == CHOOSE x \in ArActive : TRUE
            IN  /\ arPc' = "open"
                /\ arFd' = g
                /\ arLog' = [arLog EXCEPT ![g] = OpenAppend(@)]
    /\ UNCHANGED <<notArch, arNow, arGens, arDirAt, arInfo, arRecs, arBefore,
                   arAtMove, arLate>>

\* f.write, flush and fsync of lines 503-505 and the end of both with
\* blocks: the record goes to the file the descriptor is of.
ArWrite ==
    /\ arPc = "open"
    /\ arLog' = [arLog EXCEPT ![arFd] = Append(@, arRecs)]
    /\ arPc' = "idle"
    /\ arFd' = 0
    /\ UNCHANGED <<notArch, arNow, arGens, arDirAt, arInfo, arRecs, arBefore,
                   arAtMove, arLate>>

\* One run of cleanup_old_sessions(days): the directory of sessions/ whose
\* start_time is before the cutoff is moved under archive/.
ArCleanup(days) ==
    /\ LET cutoff == arNow - days * DayLen
           moved == {g \in ArActive :
                        /\ arInfo[g] < cutoff
                        /\ ArMovedTo(g, DateOf(arInfo[g])) # arDirAt[g]}
       IN  /\ arDirAt' = [g \in Gens |->
                            IF g \in moved THEN ArMovedTo(g, DateOf(arInfo[g]))
                            ELSE arDirAt[g]]
           /\ arAtMove' = [g \in Gens |->
                             IF g \in moved THEN arLog[g] ELSE arAtMove[g]]
           /\ arLate' = [g \in Gens |->
                           IF g \in moved THEN arPc = "open" /\ arFd = g
                           ELSE arLate[g]]
    /\ arBefore' = ArTotal
    /\ UNCHANGED <<notArch, arNow, arGens, arInfo, arLog, arPc, arFd, arRecs>>

NextArch ==
    \/ ArTick
    \/ ArConstruct
    \/ ArLock
    \/ ArOpen
    \/ ArWrite
    \/ \E days \in {0, 1} : ArCleanup(days)

(***************************************************************************)
(* cleanup_old_sessions (lines 755-815) over the directories of sessions/  *)
(***************************************************************************)
\* session-info.json: not there; not JSON; an object without start_time; an
\* object whose start_time is no ISO date; JSON that is no object; and what
\* write_session_info writes, <<"ok", start_time>>.
InfoMissing == <<"missing">>
InfoBadJson == <<"bad_json">>
InfoNoStartTime == <<"no_start_time">>
InfoBadStartTime == <<"bad_start_time">>
InfoNotObject == <<"not_object">>
ForeignInfos == {InfoBadJson, InfoNoStartTime, InfoBadStartTime, InfoNotObject}

InitSweep ==
    /\ swNow = 0
    /\ swMade = 0
    /\ swId = [g \in SwDirs |-> 0]
    /\ swAt = [g \in SwDirs |-> NoDir]
    /\ swInfo = [g \in SwDirs |-> InfoMissing]
    /\ swLog = [g \in SwDirs |-> <<>>]
    /\ swRecs = 0
    /\ swRuns = 0
    /\ swDays = 0
    /\ swRet = <<"none", 0>>

\* The directories sessions_dir.iterdir() yields (line 776).
SwActive(at) == {g \in SwDirs : at[g] = ActiveDir}

\* dest (line 791) is taken.
SwTaken(at, kind, date, id) ==
    \E h \in SwDirs : at[h] = <<kind, date>> /\ swId[h] = id

\* shutil.move(session_dir, dest) of line 797: a rename to dest when nothing
\* is there, into the directory that is there otherwise, and shutil.Error
\* (an OSError, caught at 804) when that place is taken too.
SwMovedTo(at, g, date) ==
    IF ~SwTaken(at, "archive", date, swId[g]) THEN <<"archive", date>>
    ELSE IF ~SwTaken(at, "nested", date, swId[g]) THEN <<"nested", date>>
    ELSE at[g]

\* What lines 782-786 raise for a session-info.json: nothing that reaches
\* line 788 for a missing file (782), JSONDecodeError (785), KeyError,
\* ValueError and TypeError (786).
InfoError(session_info) ==
    CASE session_info = InfoMissing -> "skipped"
      [] session_info = InfoBadJson -> "JSONDecodeError"
      [] session_info = InfoNoStartTime -> "KeyError"
      [] session_info = InfoBadStartTime -> "ValueError"
      [] session_info = InfoNotObject -> "TypeError"
      [] OTHER -> "none"

\* except (json.JSONDecodeError, KeyError, OSError) of line 804.
Caught(error) == error \in {"JSONDecodeError", "KeyError", "OSError"}

\* The loop of lines 776-812 over the directories in the order iterdir()
\* yields them: where every directory is afterwards, the exception that
\* left the loop and archived_count.
RECURSIVE SweepFrom(_, _, _, _)
SweepFrom(order, at, archived_count, cutoff) ==
    IF order = <<>> THEN [at |-> at, raised |-> "none", count |-> archived_count]
    ELSE LET g == Head(order)
             error == InfoError(swInfo[g])
         IN  IF error = "skipped"
             THEN SweepFrom(Tail(order), at, archived_count, cutoff)
             ELSE IF error # "none"
             THEN IF Caught(error)
                  THEN SweepFrom(Tail(order), at, archived_count, cutoff)
                  ELSE [at |-> at, raised |-> error, count |-> archived_count]
             ELSE LET start_time == swInfo[g][2]
                      dest == SwMovedTo(at, g, DateOf(start_time))
                  IN  IF start_time < cutoff /\ dest # at[g]
                      THEN SweepFrom(Tail(order), [at EXCEPT ![g] = dest],
                                     archived_count + 1, cutoff)
                      ELSE SweepFrom(Tail(order), at, archived_count, cutoff)

\* The orders iterdir() can yield a set of directories in.
Orders(S) ==
    {order \in [1..Cardinality(S) -> S] :
        \A i, j \in 1..Cardinality(S) : i # j => order[i] # order[j]}

SwTick ==
    /\ swNow < MaxSwNow
    /\ swNow' = swNow + 1
    /\ UNCHANGED <<notSweep, swMade, swId, swAt, swInfo, swLog, swRecs, swRuns,
                   swDays, swRet>>

\* SessionManager() for session id (lines 150-153): mkdir(exist_ok) of
\* sessions/<id>; a new directory when none is there.
SwMkdir(id) ==
    /\ swMade < MaxSwDirs
    /\ \A g \in SwActive(swAt) : swId[g] # id
    /\ swMade' = swMade + 1
    /\ swId' = [swId EXCEPT ![swMade + 1] = id]
    /\ swAt' = [swAt EXCEPT ![swMade + 1] = ActiveDir]
    /\ UNCHANGED <<notSweep, swNow, swInfo, swLog, swRecs, swRuns, swDays, swRet>>

\* FailureTracker() after that (lines 469-472, 254-272): session-info.json
\* is written when it is not there.
SwWriteSessionInfo(g) ==
    /\ swAt[g] = ActiveDir
    /\ swInfo[g] = InfoMissing
    /\ swInfo' = [swInfo EXCEPT ![g] = <<"ok", swNow>>]
    /\ UNCHANGED <<notSweep, swNow, swMade, swId, swAt, swLog, swRecs, swRuns,
                   swDays, swRet>>

\* A session-info.json that write_session_info did not write.
SwForeignInfo(g, session_info) ==
    /\ swAt[g] = ActiveDir
    /\ swInfo[g] = InfoMissing
    /\ swInfo' = [swInfo EXCEPT ![g] = session_info]
    /\ UNCHANGED <<notSweep, swNow, swMade, swId, swAt, swLog, swRecs, swRuns,
                   swDays, swRet>>

\* log_failure (lines 500-506) in a process of directory g's session.
SwLogFailure(g) ==
    /\ swAt[g] = ActiveDir
    /\ swRecs < MaxSwRecs
    /\ swRecs' = swRecs + 1
    /\ swLog' = [swLog EXCEPT ![g] = Append(@, swRecs + 1)]
    /\ UNCHANGED <<notSweep, swNow, swMade, swId, swAt, swInfo, swRuns, swDays,
                   swRet>>

\* One run of cleanup_old_sessions(days).
SwCleanup(days) ==
    /\ swRuns' = 1 - swRuns
    /\ swDays' = days
    /\ \E order \in Orders(SwActive(swAt)) :
          LET run == SweepFrom(order, swAt, 0, swNow - days * DayLen)
          IN  /\ swAt' = run.at
              /\ swRet' = <<run.raised, IF run.raised = "none" THEN run.count ELSE 0>>
    /\ UNCHANGED <<notSweep, swNow, swMade, swId, swInfo, swLog, swRecs>>

NextSweep ==
    \/ SwTick
    \/ \E id \in SwIds : SwMkdir(id)
    \/ \E g \in SwDirs : SwWriteSessionInfo(g)
    \/ \E g \in SwDirs : \E session_info \in ForeignInfos : SwForeignInfo(g, session_info)
    \/ \E g \in SwDirs : SwLogFailure(g)
    \/ \E days \in {0, 1} : SwCleanup(days)

(***************************************************************************)
(* FailureTracker.__init__ (469-472), write_session_info (254-272)         *)
(***************************************************************************)
NoDict == <<0, 0>>

InitInfo ==
    /\ siNow = 0
    /\ siPc = [p \in InfoProcs |-> "start"]
    /\ siInfo = [p \in InfoProcs |-> NoDict]
    /\ siFile = NoFile

SiTick ==
    /\ siNow < MaxInfoNow
    /\ siNow' = siNow + 1
    /\ UNCHANGED <<notInfo, siPc, siInfo, siFile>>

\* Lines 470-472: `if not session_info.exists()` before the call.
SiInitExists(p) ==
    /\ siPc[p] = "start"
    /\ siPc' = [siPc EXCEPT ![p] = IF siFile = NoFile THEN "write_session_info"
                                   ELSE "done"]
    /\ UNCHANGED <<notInfo, siNow, siInfo, siFile>>

\* Lines 256-265: the dict, with start_time = datetime.now() and the pid.
SiBuild(p) ==
    /\ siPc[p] = "write_session_info"
    /\ siInfo' = [siInfo EXCEPT ![p] = <<p, siNow>>]
    /\ siPc' = [siPc EXCEPT ![p] = "built"]
    /\ UNCHANGED <<notInfo, siNow, siFile>>

\* Lines 267-270: info_file.exists() once more.
SiInfoExists(p) ==
    /\ siPc[p] = "built"
    /\ siPc' = [siPc EXCEPT ![p] = IF siFile = NoFile THEN "atomic_write"
                                   ELSE "done"]
    /\ UNCHANGED <<notInfo, siNow, siInfo, siFile>>

\* Lines 271-272: atomic_write(info_file); its os.rename (301) puts the
\* temporary file in the place of whatever is there.
SiAtomicWrite(p) ==
    /\ siPc[p] = "atomic_write"
    /\ siFile' = siInfo[p]
    /\ siPc' = [siPc EXCEPT ![p] = "done"]
    /\ UNCHANGED <<notInfo, siNow, siInfo>>

NextInfo ==
    \/ SiTick
    \/ \E p \in InfoProcs :
        \/ SiInitExists(p)
        \/ SiBuild(p)
        \/ SiInfoExists(p)
        \/ SiAtomicWrite(p)

(***************************************************************************)
(* get_session_details, compare_sessions (pattern_detector.py 296-390)     *)
(***************************************************************************)
NoArchive == <<"absent">>
NoQuery == <<"none">>

\* sessions/ is there and empty, archive/ is not: the state before the first
\* SessionManager() and the first run of cleanup_old_sessions.
InitGd ==
    /\ gdActive = {}
    /\ gdArchive = NoArchive
    /\ gdRet = NoQuery

\* The date directories of archive/ that hold session_id (lines 310-317).
ArchivedUnder(session_id) ==
    IF gdArchive = NoArchive THEN {}
    ELSE {date \in GdDates : session_id \in gdArchive[2][date]}

NotFound(session_id) == <<"error", session_id>>
Details(session_id, session_dir) == <<"details", session_id, session_dir>>
Raised(exception) == <<"raised", exception>>

\* What get_session_details(session_id) can end in (lines 306-353): the
\* details read from sessions/<id>; else from the first archive/<date>/<id>
\* that iterdir() comes to; the error dict of line 320 when there is none;
\* FileNotFoundError from self.archive_dir.iterdir() (310) without archive/.
GetSessionDetailsOf(session_id) ==
    IF session_id \in gdActive THEN {Details(session_id, ActiveDir)}
    ELSE IF gdArchive = NoArchive THEN {Raised("FileNotFoundError")}
    ELSE IF ArchivedUnder(session_id) = {} THEN {NotFound(session_id)}
    ELSE {Details(session_id, <<"archive", date>>) : date \in ArchivedUnder(session_id)}

\* compare_sessions (lines 366-390): both details are fetched, the first
\* exception leaves the call, an error dict in either gives the error dict
\* of lines 370-374.
CompareSessionsOf(session_id1, session_id2) ==
    {IF session1[1] = "raised" THEN session1
     ELSE IF session2[1] = "raised" THEN session2
     ELSE IF session1[1] = "error" \/ session2[1] = "error"
          THEN <<"error", session1, session2>>
          ELSE <<"comparison", session1, session2>> :
        session1 \in GetSessionDetailsOf(session_id1),
        session2 \in GetSessionDetailsOf(session_id2)}

\* SessionManager() (failure_tracker.py 150-153) makes sessions/<id>.
GdMkdir(id) ==
    /\ id \notin gdActive
    /\ gdActive' = gdActive \cup {id}
    /\ gdRet' = NoQuery
    /\ UNCHANGED <<notGd, gdArchive>>

\* cleanup_old_sessions moves sessions/<id> to archive/<date>/<id>
\* (failure_tracker.py 790-797); dest.parent.mkdir makes archive/.
GdArchiveSession(id, date) ==
    /\ id \in gdActive
    /\ date \notin ArchivedUnder(id)
    /\ gdActive' = gdActive \ {id}
    /\ gdArchive' = <<"dirs", [d \in GdDates |->
                                  {i \in GdIds : d \in ArchivedUnder(i)}
                                     \cup (IF d = date THEN {id} ELSE {})]>>
    /\ gdRet' = NoQuery
    /\ UNCHANGED notGd

GdGetSessionDetails(session_id) ==
    /\ \E result \in GetSessionDetailsOf(session_id) :
          gdRet' = <<"get_session_details", session_id, session_id, result>>
    /\ UNCHANGED <<notGd, gdActive, gdArchive>>

GdCompareSessions(session_id1, session_id2) ==
    /\ \E result \in CompareSessionsOf(session_id1, session_id2) :
          gdRet' = <<"compare_sessions", session_id1, session_id2, result>>
    /\ UNCHANGED <<notGd, gdActive, gdArchive>>

\* The ids asked for: those of the sessions and one that no session has.
GdQueries == GdIds \cup {0}

NextGd ==
    \/ \E id \in GdIds : GdMkdir(id)
    \/ \E id \in GdIds : \E date \in GdDates : GdArchiveSession(id, date)
    \/ \E session_id \in GdQueries : GdGetSessionDetails(session_id)
    \/ \E session_id1, session_id2 \in GdQueries :
          GdCompareSessions(session_id1, session_id2)

(***************************************************************************)
(* execute_gates (lines 137-199), _execute_gate (202-277)                  *)
(***************************************************************************)
\* A gate as _parse_config builds it (lines 337-352) with, as `which`, the
\* return code of `which <tool>` and, as `run`, the return code of the
\* command or "TimeoutExpired".
GateConfigs(name) ==
    [enabled : BOOLEAN, required : BOOLEAN,
     depends_on : SUBSET (GateNames \ {name}),
     which : {0, 1}, run : {"0", "1", "TimeoutExpired"}]

\* The execution orders _validate_config accepts (lines 320-325): every
\* entry names a gate of config.gates.
ExecutionOrders == UNION {[1..n -> GateNames] : n \in 0..MaxOrder}

NoGates == [name \in GateNames |-> <<>>]
NoResults == <<"none", 0, 0>>

InitGate ==
    /\ gtPc = "none"
    /\ gtGates = NoGates
    /\ gtOrder = <<>>
    /\ gtPos = 0
    /\ gtResults = <<>>
    /\ gtRet = NoResults

\* result.passed of _execute_gate(gate) (lines 211-277): a missing tool
\* fails a required gate and passes an optional one (220-235); else the
\* command passes with return code 0 (255-261) and fails with any other
\* (262-269) or with TimeoutExpired (271-277).
ExecuteGate(gate) ==
    IF gate.which # 0 THEN ~gate.required
    ELSE gate.run = "0"

LeavesLoop_AnyFailure(gate, passed) == ~passed

\* The break of lines 180-184.
LeavesLoop(gate, passed) == ~passed /\ gate.required

\* failures of lines 180-181: the results that did not pass.
Failures(results) == SelectSeq(results, LAMBDA r : ~r[2])

\* load_config and the call of execute_gates up to line 167.
GtCall ==
    /\ gtPc = "none"
    /\ \E gates \in [testing : GateConfigs("testing"), coverage : GateConfigs("coverage")] :
          gtGates' = gates
    /\ \E execution_order \in ExecutionOrders : gtOrder' = execution_order
    /\ gtPc' = "loop"
    /\ UNCHANGED <<notGate, gtPos, gtResults, gtRet>>

\* One pass of the loop of lines 169-188.
GtLoop ==
    /\ gtPc = "loop"
    /\ gtPos < Len(gtOrder)
    /\ gtPos' = gtPos + 1
    /\ LET gate_name == gtOrder[gtPos + 1]
           gate == gtGates[gate_name]
           passed == ExecuteGate(gate)
       IN  IF ~gate.enabled
           THEN UNCHANGED <<gtResults, gtPc>>
           ELSE /\ gtResults' = Append(gtResults, <<gate_name, passed>>)
                /\ gtPc' = IF LeavesLoop(gate, passed) THEN "after" ELSE "loop"
    /\ UNCHANGED <<notGate, gtGates, gtOrder, gtRet>>

\* The loop is over.
GtLoopEnd ==
    /\ gtPc = "loop"
    /\ gtPos = Len(gtOrder)
    /\ gtPc' = "after"
    /\ UNCHANGED <<notGate, gtGates, gtOrder, gtPos, gtResults, gtRet>>

\* Lines 190-199: the ExecutionResults.
GtReturn ==
    /\ gtPc = "after"
    /\ gtRet' = <<Len(Failures(gtResults)) = 0, Len(Failures(gtResults)),
                  Len(gtResults)>>
    /\ gtPc' = "returned"
    /\ UNCHANGED <<notGate, gtGates, gtOrder, gtPos, gtResults>>

\* The caller is done with the results.
GtExit ==
    /\ gtPc = "returned"
    /\ gtPc' = "none"
    /\ gtGates' = NoGates
    /\ gtOrder' = <<>>
    /\ gtPos' = 0
    /\ gtResults' = <<>>
    /\ gtRet' = NoResults
    /\ UNCHANGED notGate

NextGate ==
    \/ GtCall
    \/ GtLoop
    \/ GtLoopEnd
    \/ GtReturn
    \/ GtExit

(***************************************************************************)
(* _apply_stage_relaxations (lines 389-434)                                *)
(***************************************************************************)
\* VALID_STAGES of line 364; None and a misspelt name are passed in too.
ValidStages == {"pre-push", "pr", "push-to-main"}
StageNone == "None"
Stages == ValidStages \cup {StageNone, "pre_push"}

\* The fields of GateConfig a relaxation is made of here, and a key that is
\* no field of GateConfig (lines 38-50).
GateFields == {"enabled", "required", "threshold"}
UnknownKey == "treshold"

\* hasattr(gate, key) of line 428.
HasAttr(key) == key \in GateFields \cup {"stage_relaxations"}

\* The relaxations of one stage: a dict from keys to relaxed values.
Relaxations ==
    {<<>>,
     [k \in {"threshold"} |-> 70],
     [k \in {"required"} |-> FALSE],
     [k \in {"required", "threshold"} |-> IF k = "required" THEN FALSE ELSE 70],
     [k \in {UnknownKey} |-> 70]}

\* The stage_relaxations of a gate: a dict with some of the stages.
StageRelaxations ==
    UNION {{[s \in stages |-> IF s = "pre-push" THEN r1 ELSE r2] :
               r1 \in Relaxations, r2 \in Relaxations} :
              stages \in SUBSET {"pre-push", "pr"}}

\* The base gates: threshold 85; enabled and required as configured.
BaseGates ==
    {[k \in GateFields \cup {"stage_relaxations"} |->
        CASE k = "enabled" -> en
          [] k = "required" -> rq
          [] k = "threshold" -> 85
          [] OTHER -> sr] :
        en \in BOOLEAN, rq \in BOOLEAN, sr \in StageRelaxations}

NoGate == <<"free">>
NoConfig == <<>>

InitRelax ==
    /\ rxPc = "none"
    /\ rxHeap = [a \in Addrs |-> NoGate]
    /\ rxConfig = NoConfig
    /\ rxGiven = NoConfig
    /\ rxStage = StageNone
    /\ rxRet = <<"none">>

\* The address deepcopy gives the copy of the gate at an address.
CopyAddr(a) == a + Cardinality(RelaxGates)

DeepCopy_SameGates(heap, config) == [heap |-> heap, config |-> config]

\* copy.deepcopy(config) of line 417: a new object for every gate.
DeepCopy(heap, config) ==
    [heap |-> [a \in Addrs |->
                 IF \E name \in DOMAIN config : CopyAddr(config[name]) = a
                 THEN heap[a - Cardinality(RelaxGates)]
                 ELSE heap[a]],
     config |-> [name \in DOMAIN config |-> CopyAddr(config[name])]]

\* The loop of lines 425-431 over one gate: setattr for every key that
\* hasattr finds, a warning for the others.
Relaxed(gate, relaxations) ==
    [k \in DOMAIN gate |->
        IF k \in DOMAIN relaxations /\ HasAttr(k) THEN relaxations[k] ELSE gate[k]]

\* Lines 402-434.
ApplyStageRelaxations(heap, config, stage) ==
    IF stage = StageNone \/ stage = "push-to-main"
    THEN [heap |-> heap, ret |-> <<"returned", config>>]
    ELSE IF stage \notin ValidStages
    THEN [heap |-> heap, ret |-> <<"raised", "ValueError">>]
    ELSE LET copy == DeepCopy(heap, config)
             at(a) == \E name \in DOMAIN config : copy.config[name] = a
         IN  [heap |-> [a \in Addrs |->
                          IF at(a) /\ stage \in DOMAIN copy.heap[a]["stage_relaxations"]
                          THEN Relaxed(copy.heap[a],
                                       copy.heap[a]["stage_relaxations"][stage])
                          ELSE copy.heap[a]],
              ret |-> <<"returned", copy.config>>]

\* A caller builds a configuration and calls with it.
RxCall ==
    /\ rxPc = "none"
    /\ \E coverage \in BaseGates : \E testing \in BaseGates :
          /\ rxHeap' = [a \in Addrs |->
                          IF a = 1 THEN coverage ELSE IF a = 2 THEN testing
                          ELSE NoGate]
          /\ rxGiven' = [name \in RelaxGates |->
                           IF name = "coverage" THEN coverage ELSE testing]
    /\ rxConfig' = [name \in RelaxGates |-> IF name = "coverage" THEN 1 ELSE 2]
    /\ \E stage \in Stages : rxStage' = stage
    /\ rxPc' = "called"
    /\ UNCHANGED <<notRelax, rxRet>>

RxApply ==
    /\ rxPc = "called"
    /\ LET applied == ApplyStageRelaxations(rxHeap, rxConfig, rxStage)
       IN  /\ rxHeap' = applied.heap
           /\ rxRet' = applied.ret
    /\ rxPc' = "returned"
    /\ UNCHANGED <<notRelax, rxConfig, rxGiven, rxStage>>

RxExit ==
    /\ rxPc = "returned"
    /\ rxPc' = "none"
    /\ rxHeap' = [a \in Addrs |-> NoGate]
    /\ rxConfig' = NoConfig
    /\ rxGiven' = NoConfig
    /\ rxStage' = StageNone
    /\ rxRet' = <<"none">>
    /\ UNCHANGED notRelax

NextRelax ==
    \/ RxCall
    \/ RxApply
    \/ RxExit

(***************************************************************************)
(* analyze_recent (pattern_detector.py 46-111) beside the archiver         *)
(***************************************************************************)
\* The date directory a session is archived under (failure_tracker.py
\* 790-791): the date of its start time.
ScanDateOf(i) == 1 + (i % NumScanDates)

\* sessions/ holds every session; nothing is archived yet.
InitScan ==
    /\ scAt = [i \in ScanIds |-> ActiveDir]
    /\ scPc = "idle"
    /\ scDates = {}
    /\ scTodo = {}
    /\ scRead = [i \in ScanIds |-> 0]
    /\ scRet = 0

\* iterdir() of a directory (os.listdir when the loop starts): what is in
\* it at that moment.
ListDir(dir) == {i \in ScanIds : scAt[i] = dir}

RECURSIVE SumRead(_)
SumRead(S) ==
    IF S = {} THEN 0
    ELSE LET i == CHOOSE x \in S : TRUE IN scRead[i] + SumRead(S \ {i})

\* shutil.move of one run of cleanup_old_sessions (failure_tracker.py 797).
ScMove(i) ==
    /\ scAt[i] = ActiveDir
    /\ scAt' = [scAt EXCEPT ![i] = <<"archive", ScanDateOf(i)>>]
    /\ UNCHANGED <<notScan, scPc, scDates, scTodo, scRead, scRet>>

\* Lines 46-56: the loop over sessions/ starts.
ScStart ==
    /\ scPc = "idle"
    /\ scPc' = "sessions"
    /\ scTodo' = ListDir(ActiveDir)
    /\ scRead' = [i \in ScanIds |-> 0]
    /\ scRet' = 0
    /\ UNCHANGED <<notScan, scAt, scDates>>

\* Lines 56-60 and 78-83, _read_session_failures (124-150): one directory of
\* the listing; is_dir() and failure_log.exists() fail for a directory that
\* is no longer there, and nothing is read.
ScVisit(i, dir) ==
    /\ i \in scTodo
    /\ scTodo' = scTodo \ {i}
    /\ scRead' = IF scAt[i] = dir THEN [scRead EXCEPT ![i] = @ + 1] ELSE scRead
    /\ UNCHANGED <<notScan, scAt, scPc, scDates, scRet>>

ScVisitActive(i) ==
    /\ scPc = "sessions"
    /\ ScVisit(i, ActiveDir)

\* Lines 71-75: the loop over sessions/ is over; archive_dir.exists() and
\* the listing of archive/.
ScArchive ==
    /\ scPc = "sessions"
    /\ scTodo = {}
    /\ scDates' = {ScanDateOf(i) : i \in {j \in ScanIds : scAt[j][1] = "archive"}}
    /\ scPc' = "dates"
    /\ UNCHANGED <<notScan, scAt, scTodo, scRead, scRet>>

\* Lines 75-79: the next date directory and its listing.
ScDate(date) ==
    /\ scPc = "dates"
    /\ scTodo = {}
    /\ date \in scDates
    /\ scDates' = scDates \ {date}
    /\ scTodo' = ListDir(<<"archive", date>>)
    /\ UNCHANGED <<notScan, scAt, scPc, scRead, scRet>>

ScVisitArchived(i) ==
    /\ scPc = "dates"
    /\ ScVisit(i, <<"archive", ScanDateOf(i)>>)

\* Lines 86-111: the report, total_failures = len(all_failures).
ScReturn ==
    /\ scPc = "dates"
    /\ scTodo = {}
    /\ scDates = {}
    /\ scRet' = SumRead(ScanIds)
    /\ scPc' = "returned"
    /\ UNCHANGED <<notScan, scAt, scDates, scTodo, scRead>>

\* The caller is done with the report.
ScExit ==
    /\ scPc = "returned"
    /\ scPc' = "idle"
    /\ UNCHANGED <<notScan, scAt, scDates, scTodo, scRead, scRet>>

NextScan ==
    \/ \E i \in ScanIds : ScMove(i)
    \/ ScStart
    \/ \E i \in ScanIds : ScVisitActive(i)
    \/ ScArchive
    \/ \E date \in ScanDates : ScDate(date)
    \/ \E i \in ScanIds : ScVisitArchived(i)
    \/ ScReturn
    \/ ScExit

(***************************************************************************)
(* session_end.main (lines 33-89); save_alerts, get_pending_alerts,        *)
(* clear_alerts (failure_tracker.py 720-753)                               *)
(***************************************************************************)
NoSnapshot == 0

InitEnd ==
    /\ seFile = NoSnapshot
    /\ seSaved = 0
    /\ seSeen = {}
    /\ sePc = "start"
    /\ seAlerts = NoSnapshot

\* self.alert_file.unlink() of clear_alerts (failure_tracker.py 751):
\* whatever alerts.json holds by then is removed.
Unlink(file) == NoSnapshot

\* An analysis pass with alerts: save_alerts renames a new alerts.json into
\* place (720-732), under no lock.
SeSaveAlerts ==
    /\ seSaved < MaxSaves
    /\ seSaved' = seSaved + 1
    /\ seFile' = seSaved + 1
    /\ UNCHANGED <<notEnd, seSeen, sePc, seAlerts>>

\* Line 45, get_pending_alerts (736-737): without alerts.json it returns
\* [], and main() returns at line 47.
SeGetExists ==
    /\ sePc = "start"
    /\ sePc' = IF seFile = NoSnapshot THEN "done" ELSE "get_read"
    /\ UNCHANGED <<notEnd, seFile, seSaved, seSeen, seAlerts>>

\* get_pending_alerts (739-743): alerts.json is read under its lock.
SeGetRead ==
    /\ sePc = "get_read"
    /\ seAlerts' = seFile
    /\ seSeen' = IF seFile = NoSnapshot THEN seSeen ELSE seSeen \cup {seFile}
    /\ sePc' = IF seFile = NoSnapshot THEN "done" ELSE "got"
    /\ UNCHANGED <<notEnd, seFile, seSaved>>

\* Lines 60-79: the introspection document is generated and saved.
SeGenerate ==
    /\ sePc = "got"
    /\ sePc' = "clear_exists"
    /\ UNCHANGED <<notEnd, seFile, seSaved, seSeen, seAlerts>>

\* Line 82, clear_alerts (749-750): if self.alert_file.exists().
SeClearExists ==
    /\ sePc = "clear_exists"
    /\ sePc' = IF seFile = NoSnapshot THEN "done" ELSE "clear_unlink"
    /\ UNCHANGED <<notEnd, seFile, seSaved, seSeen, seAlerts>>

\* clear_alerts (751).
SeClearUnlink ==
    /\ sePc = "clear_unlink"
    /\ seFile' = Unlink(seFile)
    /\ sePc' = "done"
    /\ UNCHANGED <<notEnd, seSaved, seSeen, seAlerts>>

\* The hook process ends; the next SessionEnd starts another.
SeExit ==
    /\ sePc = "done"
    /\ sePc' = "start"
    /\ seAlerts' = NoSnapshot
    /\ UNCHANGED <<notEnd, seFile, seSaved, seSeen>>

NextEnd ==
    \/ SeSaveAlerts
    \/ SeGetExists
    \/ SeGetRead
    \/ SeGenerate
    \/ SeClearExists
    \/ SeClearUnlink
    \/ SeExit

Init == InitSession /\ InitAtomic /\ InitStore /\ InitOps /\ InitAlert /\ InitBoot /\ InitCmd /\ InitPat /\ InitCls /\ InitDet /\ InitArch /\ InitSweep /\ InitInfo /\ InitGd /\ InitGate /\ InitRelax /\ InitScan /\ InitEnd

Spec == Init /\ [][Next]_vars

\* Spec with the scheduling of the lock: a process inside file_lock's loop
\* runs its next round after the sleep of line 437, and the finally of line
\* 441 runs as soon as the block is left. Nothing is assumed about how long
\* the body of a holder takes, nor about the clock.
SpecLive ==
    /\ Init
    /\ [][Next]_vars
    /\ \A p \in LProcs :
          /\ WF_vars(LTry(p))
          /\ WF_vars(LStaleTry(p))
          /\ WF_vars(LCheck(p))
          /\ WF_vars(LRelease(p))

SpecSession == Init /\ [][NextSession]_vars

\* SpecSession with the scheduling of the blocking flock of line 198: it
\* returns once the lock is free. Nothing is assumed about how long the
\* holder of the lock takes.
SpecSessionLive ==
    /\ Init
    /\ [][NextSession]_vars
    /\ \A p \in SProcs : WF_vars(SessFlock(p) /\ sLock' = p)

SpecAtomic == Init /\ [][NextAtomic]_vars

SpecOps == Init /\ [][NextOps]_vars

SpecEnd == Init /\ [][NextEnd]_vars

SpecScan == Init /\ [][NextScan]_vars

SpecRelax == Init /\ [][NextRelax]_vars

SpecGate == Init /\ [][NextGate]_vars

SpecGd == Init /\ [][NextGd]_vars

SpecInfo == Init /\ [][NextInfo]_vars

SpecSweep == Init /\ [][NextSweep]_vars

SpecArch == Init /\ [][NextArch]_vars

SpecDet == Init /\ [][NextDet]_vars

SpecCls == Init /\ [][NextCls]_vars

SpecPat == Init /\ [][NextPat]_vars

SpecCmd == Init /\ [][NextCmd]_vars

SpecBoot == Init /\ [][NextBoot]_vars

SpecAlert == Init /\ [][NextAlert]_vars

(***************************************************************************)
(* Claims about session identity (checked under SpecSession)               *)
(***************************************************************************)

\* p returned an id and the environment supplied none.
SessReturned(p) ==
    sPc[p] = "done" /\ sEnv[p] = NoId /\ sVia[p] \in {"created", "reused", "ephemeral"}

\* p returned from inside the locked block (line 213 or line 235).
SessReturnedLocked(p) ==
    sPc[p] = "done" /\ sVia[p] \in {"created", "reused"}

IsComplete(data) == \E c \in Inodes : data = Content(c)

\* C4: a reader of the path sees, at any instant and in every finished read,
\* the complete content of one write, never a partially written content,
\* whatever the writers do meanwhile (concurrent calls, calls that fail).
C4_ReaderSeesCompleteContent ==
    /\ target # NoInode => IsComplete(iData[target])
    /\ rSeen # NotRead => IsComplete(rSeen)
    /\ rPc = "reading" => IsComplete(iData[rIno])

\* C4 witness: the reader is halfway through the content of one write while
\* the path already names the content of another write, and a further
\* call is in progress or has failed.
C4_Witness ==
    /\ rPc = "reading"
    /\ Len(rBuf) = 1
    /\ target # rIno
    /\ \E p \in AProcs : aTemp[p] # rIno /\ aTemp[p] # NoInode

\* p's last call failed before the rename (the exception left atomic_write).
AFailed(p) == aPc[p] \in {"done", "exited"} /\ aOutcome[p] = "raised"

\* C5 as stated: after a call that failed before the rename the error has
\* been propagated, the path does not name this call's content, the temp
\* file no longer exists and is no longer in the registry.
C5_FailureRemovesTemp ==
    \A p \in AProcs :
        AFailed(p) =>
            /\ target # ACall(p)
            /\ aTemp[p] \notin tempLinks
            /\ aTemp[p] \notin registry[p]

\* C5 amended: as stated, except that the temp file may survive when its
\* deletion itself failed (the OSError of os.unlink is logged and swallowed).
C5_FailureCleansUpBestEffort ==
    \A p \in AProcs :
        AFailed(p) =>
            /\ target # ACall(p)
            /\ aTemp[p] \in tempLinks => aUnlinkFailed[p]
            /\ aTemp[p] \notin registry[p]

\* C5 witness: a call failed after the producer had written part of the
\* content, and its temp file has been deleted.
C5_Witness ==
    \E p \in AProcs :
        /\ AFailed(p)
        /\ aTemp[p] # NoInode
        /\ Len(iData[aTemp[p]]) = 1
        /\ aTemp[p] \notin tempLinks
        /\ ~aUnlinkFailed[p]

(***************************************************************************)
(* Claims about file_lock and log_failure (checked under Spec)             *)
(***************************************************************************)

\* p is executing the body of its with file_lock(...) block.
InBody(p) == pc[p] \in {"b_open", "b_write"}

\* The parts of a file that process p wrote, in order.
RECURSIVE PartsOf(_, _)
PartsOf(parts, p) ==
    IF parts = <<>> THEN <<>>
    ELSE IF Head(parts)[1] = p
         THEN <<Head(parts)>> \o PartsOf(Tail(parts), p)
         ELSE PartsOf(Tail(parts), p)

\* sub occurs in parts as one block.
Adjacent(parts, sub) ==
    \E i \in 1..(Len(parts) + 1 - Len(sub)) :
        SubSeq(parts, i, i + Len(sub) - 1) = sub

\* p's record is a line of the file.
HasRecordLine(parts, p) ==
    \E i \in DOMAIN Lines(parts) : Lines(parts)[i] = RecordParts(p)

\* C2 as stated: at no instant are two processes both executing the body of
\* file_lock for the same path.
C2_MutualExclusion ==
    \A p, q \in LProcs : (p # q /\ InBody(p)) => ~InBody(q)

\* C2 amended: at no instant are two processes that acquired the lock both
\* executing the body; a process whose lock file could not be opened runs
\* its body without the lock.
C2_MutualExclusionOfHolders ==
    \A p, q \in LProcs :
        (p # q /\ InBody(p) /\ locked[p]) => ~(InBody(q) /\ locked[q])

\* C2 witness: one process is writing inside the body while another one,
\* having met BlockingIOError, is waiting for the lock.
C2_Witness ==
    \E p, q \in LProcs :
        /\ p # q
        /\ pc[p] = "b_write" /\ locked[p]
        /\ pc[q] = "l_check" /\ waited[q]

LogDone(p) == pc[p] = "done"

\* log_failure of p returned normally.
LogReturned(p) == LogDone(p) /\ outcome[p] \in {"primary", "emergency"}

\* C6 as stated: whenever log_failure returns normally the record is a line
\* of the primary log or of one of the two emergency logs, and when neither
\* write succeeded an explicit error naming the emergency log is raised.
C6_NoSilentLoss ==
    \A p \in LProcs :
        /\ LogReturned(p) =>
              \/ HasRecordLine(log, p)
              \/ HasRecordLine(emPerm, p)
              \/ HasRecordLine(emTimeout, p)
        /\ (LogDone(p) /\ ~LogReturned(p)) => outcome[p] = "RuntimeError"

\* C7 as stated: whatever I/O error the primary write fails with, the
\* emergency write is attempted, and an error reaches the caller only if the
\* emergency write failed too.
C7_OnlyDoubleFailurePropagates ==
    \A p \in LProcs :
        (LogDone(p) /\ exc[p] # "none") =>
            /\ outcome[p] \in {"emergency", "RuntimeError"}
            /\ outcome[p] = "RuntimeError" => ePos[p] < Len(EmergencyParts(p))

\* No part of the primary log was written by p.
PrimaryUntouchedBy(p) == PartsOf(log, p) = <<>>

\* C8 as stated: after a permission error on the primary log, the primary log
\* has nothing of this call and the permission-fallback emergency log holds
\* the record followed by the warning line.
C8_PermissionFallback ==
    \A p \in LProcs :
        (LogDone(p) /\ exc[p] = "PermissionError") =>
            /\ PrimaryUntouchedBy(p)
            /\ Adjacent(emPerm, EmergencyParts(p))

\* C8 amended: after a permission error the call writes nothing to the primary
\* log nor to the timeout emergency log; if its emergency write succeeds, the
\* permission-fallback log holds its record followed by its warning line
\* (adjacent unless another process appended to that log meanwhile);
\* otherwise RuntimeError is raised.
C8_PermissionFallbackOrError ==
    \A p \in LProcs :
        exc[p] = "PermissionError" =>
            /\ PrimaryUntouchedBy(p)
            /\ PartsOf(emTimeout, p) = <<>>
            /\ LogDone(p) => outcome[p] \in {"emergency", "RuntimeError"}
            /\ LogReturned(p) =>
                  /\ PartsOf(emPerm, p) = EmergencyParts(p)
                  /\ (\A q \in LProcs \ {p} : PartsOf(emPerm, q) = <<>>)
                        => Adjacent(emPerm, EmergencyParts(p))

\* C8 witness: a call that met the permission error has returned after its
\* emergency write, while the primary log holds the record of another call.
C8_Witness ==
    \E p, q \in LProcs :
        /\ LogReturned(p) /\ exc[p] = "PermissionError"
        /\ Adjacent(emPerm, EmergencyParts(p))
        /\ q # p /\ HasRecordLine(log, q)

\* Every call has ended, and the ones that wrote to the primary log returned
\* normally from the primary path.
AllPrimaryWritersReturned ==
    \A p \in LProcs : LogDone(p) /\ (outcome[p] = "primary" \/ wPos[p] = 0)

\* The primary log consists of exactly one whole line per call that returned
\* from the primary path.
PrimaryLogIsWhole ==
    /\ Len(Lines(log)) = Cardinality({p \in LProcs : outcome[p] = "primary"})
    /\ Len(log) = Len(Lines(log)) * 2
    /\ \A p \in LProcs : outcome[p] = "primary" => HasRecordLine(log, p)

\* C9 as stated: when the concurrent calls all returned normally from the
\* primary path, the primary log has gained exactly one whole line per call.
C9_NoCorruption == AllPrimaryWritersReturned => PrimaryLogIsWhole

\* C9 amended: the same for calls that wrote while holding the lock.
C9_NoCorruptionUnderLock ==
    (AllPrimaryWritersReturned /\ \A p \in LProcs : outcome[p] = "primary" => locked[p])
        => PrimaryLogIsWhole

\* C9 witness: every process returned from the primary path, having held the
\* lock, and the log holds their records in the order the appends completed.
C9_Witness ==
    /\ \A p \in LProcs : LogDone(p) /\ outcome[p] = "primary" /\ locked[p]
    /\ Len(completed) = NumProcs
    /\ \A i \in 1..NumProcs : Lines(log)[i] = RecordParts(completed[i])

(***************************************************************************)
(* Claims about the operations on a session's files (checked under SpecOps) *)
(***************************************************************************)

\* s is a prefix of t.
IsPrefix(s, t) == Len(s) <= Len(t) /\ SubSeq(t, 1, Len(s)) = s

\* The calls whose records a reader gets from a file, in the file's order.
RecordIds(parts) == [i \in DOMAIN Records(parts) |-> Records(parts)[i][1][1]]

\* The calls of done, in order, that are among ids.
Restrict(done, ids) ==
    LET Among(n) == \E i \in DOMAIN ids : ids[i] = n
    IN  SelectSeq(done, Among)

\* C10: a session's failure log is append-only: no operation (log_failure,
\* analyze_patterns, save_alerts, get_pending_alerts, clear_alerts,
\* cleanup_old_sessions, analyze_recent) changes what the log file already
\* holds, so every earlier sequence of its lines and of its records is a prefix
\* of the later one, wherever the file's directory is moved; and the records
\* in the file are in the order in which their appends completed.
C10_AppendOnly ==
    /\ [][\A g \in Gens :
            /\ IsPrefix(Bytes(flog[g]), Bytes(flog'[g]))
            /\ IsPrefix(Records(Bytes(flog[g])), Records(Bytes(flog'[g])))]_vars
    /\ [](\A g \in Gens :
            RecordIds(Bytes(flog[g])) = Restrict(appended[g], RecordIds(Bytes(flog[g]))))

\* C10 witness: the session's directory was archived with a log of two
\* records whose alerts had been saved, a later directory of the same
\* session holds a further record, and analyze_recent has read all three.
C10_Witness ==
    \E g, h \in Gens :
        /\ dirAt[g][1] = "archive"
        /\ RecordIds(Bytes(flog[g])) = <<1, 2>>
        /\ alertFile[g] = AlertData(2)
        /\ dirAt[h] = ActiveDir
        /\ RecordIds(Bytes(flog[h])) = <<3>>
        /\ ret = <<"analyze_recent", "none", 3>>

(***************************************************************************)
(* Claims about the alert file (checked under SpecAlert)                   *)
(***************************************************************************)

\* C11 as stated: every mutation of the session-id key file, of the failure
\* log and of the alert file is made by a process that holds the exclusive
\* lock of that file at that moment.
C11_LockDiscipline ==
    /\ [][keyFile' # keyFile =>
            \E p \in SProcs : sPc'[p] # sPc[p] /\ sLock = p]_vars
    /\ [][log' # log =>
            \E p \in LProcs : wPos'[p] # wPos[p] /\ lockHolder = p]_vars
    /\ [][alFile' # alFile => alLock = alActor']_vars

(***************************************************************************)
(* Claims about the boot time and the session key (checked under SpecBoot) *)
(***************************************************************************)

\* Call c returned from _get_or_create_session_id.
BootReturned(c) == bPc[c] = "done"

\* C12 as stated: without CLAUDE_SESSION_ID, any two calls made in separate
\* processes of one parent on one host get the same session id, whichever of
\* the four boot-time methods works on the host.
C12_SessionIdStability ==
    \A c, d \in BCalls :
        (/\ ProcOf(c) # ProcOf(d)
         /\ BootReturned(c) /\ BootReturned(d)
         /\ bEnv[ProcOf(c)] = NoId /\ bEnv[ProcOf(d)] = NoId)
        => bResult[c] = bResult[d]

\* C13: a call made with CLAUDE_SESSION_ID in the environment returns exactly
\* that value, and none of its steps resolves the boot time (the cache and its
\* lock stay as they are), draws a uuid, or creates or changes a key file.
C13_EnvOverride ==
    /\ [](\A c \in BCalls :
            (BootReturned(c) /\ bEnv[ProcOf(c)] # NoId)
            => /\ bResult[c] = bEnv[ProcOf(c)]
               /\ bBoot[c] = NoBoot
               /\ bCache[ProcOf(c)] = NoBoot)
    /\ [][\A c \in BCalls :
            (bEnv[ProcOf(c)] # NoId /\ bPc'[c] # bPc[c])
            => UNCHANGED <<bKeyFiles, bUuid, bCache, bMutex, bBoot, bUptime>>]_vars

\* A call returned the id of the environment after another process had
\* created a key file.
C13_Witness ==
    \E c \in BCalls :
        /\ BootReturned(c)
        /\ bEnv[ProcOf(c)] = ExtId
        /\ bResult[c] = ExtId
        /\ \E k \in BootKeys : bKeyFiles[k] # NoId

\* C14: within one process every call of _get_boot_time returns the value the
\* cache holds, which is the value the first call that returned was given, also
\* when several threads call before the cache is filled; once set, the cached
\* value never changes.
C14_BootTimeMemoized ==
    /\ [](\A c \in BCalls :
            bBoot[c] # NoBoot => bBoot[c] = bCache[ProcOf(c)])
    /\ [][\A p \in BProcs :
            bCache[p] # NoBoot => bCache'[p] = bCache[p]]_vars

\* Two threads of one process have both returned from _get_boot_time on a
\* host where only time.time() works, and the clock has moved since the cache
\* was filled.
C14_Witness ==
    \E c, d \in BCalls :
        /\ c # d
        /\ ProcOf(c) = ProcOf(d)
        /\ bBoot[c] # NoBoot
        /\ bBoot[d] # NoBoot
        /\ bMethod = 4
        /\ bNow # bCache[ProcOf(c)]

(***************************************************************************)
(* Claims about the lock-timeout fallback of log_failure (checked under    *)
(* Spec)                                                                   *)
(***************************************************************************)

\* C19 as stated: after a lock timeout the primary log has nothing of this
\* call, and the emergency log of the session directory holds the record
\* followed by the warning line.
C19_TimeoutFallback ==
    \A p \in LProcs :
        (LogDone(p) /\ exc[p] = "TimeoutError") =>
            /\ PrimaryUntouchedBy(p)
            /\ Adjacent(emTimeout, EmergencyParts(p))

\* C19 amended: after a lock timeout the call writes nothing to the primary
\* log nor to the permission-fallback log in /tmp; if its emergency write
\* succeeds, the emergency log of the session directory holds its record
\* followed by its warning line (adjacent unless another process appended to
\* that log meanwhile); otherwise RuntimeError is raised.
C19_TimeoutFallbackOrError ==
    \A p \in LProcs :
        exc[p] = "TimeoutError" =>
            /\ PrimaryUntouchedBy(p)
            /\ PartsOf(emPerm, p) = <<>>
            /\ LogDone(p) => outcome[p] \in {"emergency", "RuntimeError"}
            /\ LogReturned(p) =>
                  /\ PartsOf(emTimeout, p) = EmergencyParts(p)
                  /\ (\A q \in LProcs \ {p} : PartsOf(emTimeout, q) = <<>>)
                        => Adjacent(emTimeout, EmergencyParts(p))

\* A call that timed out on the lock has returned after its emergency write,
\* while the primary log holds what the holder of the lock wrote.
C19_Witness ==
    \E p, q \in LProcs :
        /\ LogReturned(p) /\ exc[p] = "TimeoutError"
        /\ Adjacent(emTimeout, EmergencyParts(p))
        /\ q # p /\ PartsOf(log, q) # <<>>

(***************************************************************************)
(* Claims about file_lock's waiting and release (checked under SpecLive)   *)
(***************************************************************************)

\* p is in file_lock's loop, the lock is held by another process, and more
\* than `timeout` has passed since p started waiting.
WaitedOut(p) == Blocked(p) /\ now - lStart[p] > Timeout

\* C15: a file_lock call whose wait has passed the timeout while another
\* process holds the lock raises TimeoutError, unless the holder lets the lock
\* go first; a call that raised TimeoutError never acquired the lock and wrote
\* nothing in its body, and none of its steps, the finally included, changes
\* who holds the lock.
C15_LockTimeout ==
    /\ \A p \in LProcs :
          WaitedOut(p) ~> (exc[p] = "TimeoutError" \/ lockHolder = NoProc)
    /\ [](\A p \in LProcs :
            exc[p] = "TimeoutError" =>
                /\ ~locked[p]
                /\ ~InBody(p)
                /\ wPos[p] = 0
                /\ PrimaryUntouchedBy(p))
    /\ [][\A p \in LProcs :
            (exc'[p] = "TimeoutError" /\ pc'[p] # pc[p])
            => (lockHolder' = lockHolder /\ lockHolder # p)]_vars

\* A call has left file_lock with TimeoutError while the holder is still in
\* its body with the lock.
C15_Witness ==
    \E p, q \in LProcs :
        /\ p # q
        /\ exc[p] = "TimeoutError"
        /\ pc[p] \in {"handler", "done"}
        /\ lockHolder = q
        /\ InBody(q)

\* The file_lock call of p took the lock and has been left, by return or by
\* an exception of the body.
LockCallFinished(p) == locked[p] /\ pc[p] \in {"handler", "done"}

\* C16 as stated: a process that took the lock does not hold it once its
\* file_lock call is left, whether the body returned or raised; and whenever
\* the lock is free while a process is waiting in file_lock's loop, the lock is
\* eventually acquired.
C16_ReleaseOnEveryExit ==
    /\ [](\A p \in LProcs : LockCallFinished(p) => lockHolder # p)
    /\ \A q \in LProcs :
          (InWaitLoop(q) /\ lockHolder = NoProc) ~> (lockHolder # NoProc)

\* The last refused attempt of q found the timeout passed: q is on its way to
\* raising TimeoutError (lines 425-435) and does not try the lock again.
TimeoutPending(q) == pc[q] = "l_check" /\ lElapsed[q] > Timeout

\* C16 amended: a process that took the lock does not hold it once its
\* file_lock call is left, whether the body returned or raised; and whenever
\* the lock is free while a process is waiting in file_lock's loop and has not
\* found its timeout passed, the lock is eventually acquired.
C16_ReleaseThenAcquire ==
    /\ [](\A p \in LProcs : LockCallFinished(p) => lockHolder # p)
    /\ \A q \in LProcs :
          (InWaitLoop(q) /\ ~TimeoutPending(q) /\ lockHolder = NoProc)
              ~> (lockHolder # NoProc)

\* One call left file_lock by an exception of its body after taking the lock,
\* and a process that had to wait holds the lock now.
C16_Witness ==
    \E p, q \in LProcs :
        /\ p # q
        /\ LockCallFinished(p)
        /\ exc[p] \in {"PermissionError", "OSError"}
        /\ waited[q]
        /\ lockHolder = q

\* C17 as stated: when the lock file cannot be prepared (the touch of lines
\* 349-350) or opened (os.open at 355), file_lock raises nothing of its own
\* and runs the body, once and without holding or taking the lock.
C17_LockDegradation ==
    [][\A p \in LProcs :
         /\ (pc[p] = "idle" /\ pc'[p] # pc[p]) => pc'[p] = "l_open"
         /\ (pc[p] = "l_open" /\ pc'[p] # pc[p]) =>
               \/ pc'[p] = "l_try"
               \/ /\ pc'[p] = "b_open"
                  /\ ~locked'[p]
                  /\ lockHolder' = lockHolder
                  /\ exc'[p] = "none"
         /\ (~InBody(p) /\ InBody(p)') => wPos[p] = 0]_vars

(***************************************************************************)
(* Claims about the wait for the lock of the key file (checked under       *)
(* SpecSessionLive)                                                        *)
(***************************************************************************)

\* C18 as stated, for the check-and-create of the session id: a process that
\* asks for the lock of the key file eventually has the lock, an error, or
\* goes on without the lock, also when the holder never releases it.
C18_BoundedLockWait ==
    \A p \in SProcs : (sPc[p] = "flock") ~> (sPc[p] # "flock")

(***************************************************************************)
(* Claims about the analysis pass (checked under SpecCmd)                  *)
(***************************************************************************)

\* The alerts of the persisted snapshot, none without alerts.json.
PendingAlerts == IF cAlerts = NoFile THEN 0 ELSE cAlerts[2]

\* C20 as stated: after every analysis pass the persisted snapshot holds
\* exactly the alerts that pass computed, also when it computed none and an
\* earlier snapshot exists.
C20_CurrentSnapshot ==
    cRet[1] = "analyze" => PendingAlerts = cRet[2]

WindowOfKind(error_type) ==
    {i \in DOMAIN pWin : pWin[i].error_type = error_type}

WindowOfPrefix(head) ==
    {i \in DOMAIN pWin : /\ Len(pWin[i].tool_input) = 3
                         /\ pWin[i].tool_input[2] = head}

AlertsOfKind(error_type) ==
    {i \in DOMAIN pRet.alerts :
        /\ pRet.alerts[i].pattern_type = "recurring_error"
        /\ pRet.alerts[i].error_type = error_type}

AlertsOfPrefix(head) ==
    {i \in DOMAIN pRet.alerts :
        /\ pRet.alerts[i].pattern_type = "command_repeated_failure"
        /\ pRet.alerts[i].command = <<head, "">>}

CommandHeads == {c[2] : c \in Commands}

\* C22: the alerts analyze_patterns returns are, for the records of the log
\* inside the window, exactly one alert for each error kind with at least
\* PATTERN_THRESHOLD = 2 of them and one for each 100-character command
\* prefix with at least 2 of them, each with the size of its group as its
\* occurrence count, none for a smaller group, and no other alert.
C22_AlertPerGroup ==
    pRet.outcome = "alerts" =>
        /\ \A k \in Kinds :
              /\ Cardinality(AlertsOfKind(k))
                    = (IF Cardinality(WindowOfKind(k)) >= 2 THEN 1 ELSE 0)
              /\ \A i \in AlertsOfKind(k) :
                    pRet.alerts[i].occurrences = Cardinality(WindowOfKind(k))
        /\ \A h \in CommandHeads :
              /\ Cardinality(AlertsOfPrefix(h))
                    = (IF Cardinality(WindowOfPrefix(h)) >= 2 THEN 1 ELSE 0)
              /\ \A i \in AlertsOfPrefix(h) :
                    pRet.alerts[i].occurrences = Cardinality(WindowOfPrefix(h))
        /\ \A i \in DOMAIN pRet.alerts :
              \/ \E k \in Kinds : i \in AlertsOfKind(k)
              \/ \E h \in CommandHeads : i \in AlertsOfPrefix(h)

\* A call found two records inside its window and an older one outside; the
\* two are of different kinds and their commands share the first 100
\* characters only, and the call returned the one alert of that prefix.
C22_Witness ==
    /\ pRet.outcome = "alerts"
    /\ Len(pLog) = 3 /\ Len(pWin) = 2
    /\ pLog[1].json = "object" /\ pLog[1] # pWin[1]
    /\ pWin[1].error_type # pWin[2].error_type
    /\ pWin[1].tool_input # pWin[2].tool_input
    /\ Len(pRet.alerts) = 1
    /\ pRet.alerts[1].pattern_type = "command_repeated_failure"
    /\ pRet.alerts[1].occurrences = 2

TenMinutes == HourLen \div 6

\* The log holds exactly three records, written by log_failure with the
\* kind file_not_found during the last ten minutes, and the last call was
\* analyze_patterns with a lookback of one hour.
ThreeFileNotFound ==
    /\ Len(pLog) = 3
    /\ \A i \in DOMAIN pLog :
          /\ pLog[i] \in LoggedRecords(pLog[i].timestamp)
          /\ pLog[i].error_type = "file_not_found"
          /\ pNow - pLog[i].timestamp <= TenMinutes
    /\ pRet.outcome # "none"
    /\ pRet.lookback_hours = 1

\* Two of the records have commands with the same first 100 characters.
SharedPrefix ==
    \E i, j \in DOMAIN pLog :
        /\ i < j
        /\ Len(pLog[i].tool_input) = 3 /\ Len(pLog[j].tool_input) = 3
        /\ pLog[i].tool_input[2] = pLog[j].tool_input[2]

Classified == clsType \notin {"none", "pending"}

\* The rules with some pattern inside stderr followed by stdout.
MatchingRules ==
    {r \in DOMAIN ErrorPatterns :
        \E p \in DOMAIN ErrorPatterns[r][2] :
            Contains(clsEvent.stderr \o clsEvent.stdout, ErrorPatterns[r][2][p])}

\* C24: the kind _extract_error_type returns is that of the first rule of
\* the table with a pattern that is a substring of stderr followed by
\* stdout; when no rule has one it is command_failed for a nonzero exit
\* code and unknown_error otherwise. In particular a stderr containing
\* "No module named" with exit code 1 gives module_not_found.
C24_FirstMatchWins ==
    Classified =>
        /\ MatchingRules # {} =>
              \E r \in MatchingRules :
                  /\ \A q \in MatchingRules : r <= q
                  /\ clsType = ErrorPatterns[r][1]
        /\ MatchingRules = {} =>
              clsType = (IF clsEvent.exit_code # 0 THEN "command_failed"
                         ELSE "unknown_error")
        /\ (/\ Contains(clsEvent.stderr, <<"No module named">>)
            /\ clsEvent.exit_code = 1) => clsType = "module_not_found"

\* An event with "ruff" as its stderr and "No module named" as its stdout:
\* rules 1 and 8 match, and the kind is that of rule 1.
C24_Witness ==
    /\ Classified
    /\ clsEvent.stderr = <<"ruff">>
    /\ clsEvent.stdout = <<"No module named">>
    /\ MatchingRules = {1, 8}
    /\ clsType = "module_not_found"

(***************************************************************************)
(* Claims about analyze_recent (checked under SpecDet)                     *)
(***************************************************************************)
\* The records of DetInputs with a line inside the window of the last call.
InWindow == {i \in DOMAIN DetInputs : dWin[i] > 0}

WithKind(error_type) ==
    {i \in DOMAIN DetInputs : DetInputs[i].error_type = error_type}

WithTool(tool_name) ==
    {i \in DOMAIN DetInputs : DetInputs[i].tool_name = tool_name}

OnHost(hostname) ==
    {i \in DOMAIN DetInputs : DetInputs[i].hostname = hostname}

\* The number of lines of the window with a record of the set, and the
\* number of sessions they are of.
RECURSIVE WindowLines(_)
WindowLines(records) ==
    IF records = {} THEN 0
    ELSE LET i == CHOOSE r \in records : TRUE
         IN  dWin[i] + WindowLines(records \ {i})

WindowSessions(records) ==
    Cardinality({DetInputs[i].session_id : i \in records \cap InWindow})

PatternsOf(type) ==
    {i \in DOMAIN dRet.patterns : dRet.patterns[i].type = type}

DetKinds == {DetInputs[i].error_type : i \in DOMAIN DetInputs}

\* C25: analyze_recent reports a recurring_error_type pattern for an error
\* kind exactly when the kind has at least 3 records in the window, one
\* pattern at most, and its severity is CRITICAL for at least 10
\* occurrences in at least 3 sessions, else HIGH for at least 5 in at least
\* 2 sessions, else MEDIUM (3 occurrences or more), else LOW.
C25_RecurringErrorType ==
    dRet.called =>
        \A k \in DetKinds :
            LET n == WindowLines(WithKind(k))
                s == WindowSessions(WithKind(k))
                found == {i \in PatternsOf("recurring_error_type") :
                             dRet.patterns[i].error_type = k}
            IN  /\ Cardinality(found) = (IF n >= 3 THEN 1 ELSE 0)
                /\ \A i \in found :
                      /\ dRet.patterns[i].occurrences = n
                      /\ dRet.patterns[i].severity =
                            (IF n >= 10 /\ s >= 3 THEN "CRITICAL"
                             ELSE IF n >= 5 /\ s >= 2 THEN "HIGH"
                             ELSE IF n >= 3 THEN "MEDIUM"
                             ELSE "LOW")

\* A call with a lookback of 7 days found 12 failures of the kind
\* file_not_found from 4 sessions and reported them as CRITICAL.
C25_Witness ==
    /\ dRet.called
    /\ WindowLines(WithKind("file_not_found")) = 12
    /\ WindowSessions(WithKind("file_not_found")) = 4
    /\ \E i \in PatternsOf("recurring_error_type") :
          /\ dRet.patterns[i].error_type = "file_not_found"
          /\ dRet.patterns[i].occurrences = 12
          /\ dRet.patterns[i].severity = "CRITICAL"

DetTools == {DetInputs[i].tool_name : i \in DOMAIN DetInputs}

\* C26: analyze_recent reports a problematic_tool pattern for a tool
\* exactly when the tool has at least 5 failure records in the window from
\* at least 2 sessions; the pattern lists at most 3 error kinds with their
\* counts among the tool's failures, and no kind it leaves out has more
\* failures than a kind it lists.
C26_ProblematicTool ==
    dRet.called =>
        \A t \in DetTools :
            LET n == WindowLines(WithTool(t))
                s == WindowSessions(WithTool(t))
                found == {i \in PatternsOf("problematic_tool") :
                             dRet.patterns[i].tool_name = t}
                count(k) == WindowLines(WithTool(t) \cap WithKind(k))
            IN  /\ Cardinality(found) = (IF n >= 5 /\ s >= 2 THEN 1 ELSE 0)
                /\ \A i \in found :
                      LET common == dRet.patterns[i].common_errors
                          listed == {common[c][1] : c \in DOMAIN common}
                      IN  /\ dRet.patterns[i].occurrences = n
                          /\ Len(common) <= 3
                          /\ Cardinality(listed) = Len(common)
                          /\ \A c \in DOMAIN common :
                                /\ common[c][1] \in DetKinds
                                /\ common[c][2] = count(common[c][1])
                                /\ common[c][2] > 0
                          /\ \A k \in DetKinds \ listed :
                                /\ \A l \in listed : count(k) <= count(l)
                                /\ count(k) > 0 => Len(common) = 3

\* A call found failures of Bash of four kinds, and its pattern for Bash
\* lists three of them, leaving out one with fewer failures.
C26_Witness ==
    /\ dRet.called
    /\ \A k \in DetKinds : WindowLines(WithTool("Bash") \cap WithKind(k)) > 0
    /\ \E i \in PatternsOf("problematic_tool") :
          /\ dRet.patterns[i].tool_name = "Bash"
          /\ Len(dRet.patterns[i].common_errors) = 3
          /\ \E k \in DetKinds :
                /\ \A c \in 1..3 : dRet.patterns[i].common_errors[c][1] # k
                /\ WindowLines(WithTool("Bash") \cap WithKind(k))
                      < dRet.patterns[i].common_errors[3][2]

DetHosts == {DetInputs[i].hostname : i \in DOMAIN DetInputs}

\* C27: analyze_recent reports a host_specific_issue pattern for a host
\* exactly when the host has at least 10 failure records in the window and
\* the sessions with a failure on that host are strictly more than half of
\* all the sessions with a failure in the window; its severity is HIGH.
C27_HostSpecificIssue ==
    dRet.called =>
        \A h \in DetHosts :
            LET n == WindowLines(OnHost(h))
                host_sessions == WindowSessions(OnHost(h))
                total_sessions == WindowSessions(DOMAIN DetInputs)
                found == {i \in PatternsOf("host_specific_issue") :
                             dRet.patterns[i].hostname = h}
            IN  /\ Cardinality(found)
                      = (IF n >= 10 /\ 2 * host_sessions > total_sessions
                         THEN 1 ELSE 0)
                /\ \A i \in found :
                      /\ dRet.patterns[i].occurrences = n
                      /\ dRet.patterns[i].severity = "HIGH"

\* A call found 10 failures or more on hostA, from two of the three
\* sessions of the window, and reported the host.
C27_Witness ==
    /\ dRet.called
    /\ WindowLines(OnHost("hostA")) >= 10
    /\ WindowSessions(OnHost("hostA")) = 2
    /\ WindowSessions(DOMAIN DetInputs) = 3
    /\ \E i \in PatternsOf("host_specific_issue") :
          dRet.patterns[i].hostname = "hostA"

\* The place of a severity in the order CRITICAL, HIGH, MEDIUM, LOW.
SeverityPlace(severity) ==
    CHOOSE n \in 1..4 : <<"CRITICAL", "HIGH", "MEDIUM", "LOW">>[n] = severity

\* C28: in the list of patterns analyze_recent returns, each pattern is at
\* least as severe as the one after it, and of two neighbours of equal
\* severity the first has at least as many occurrences.
C28_PatternsOrdered ==
    dRet.called =>
        \A i \in 1..(Len(dRet.patterns) - 1) :
            LET p == dRet.patterns[i]
                q == dRet.patterns[i + 1]
            IN  /\ SeverityPlace(p.severity) <= SeverityPlace(q.severity)
                /\ p.severity = q.severity => p.occurrences >= q.occurrences

\* A call returned a problematic_tool pattern ahead of a
\* recurring_error_type pattern of lower severity, and two patterns of
\* equal severity with different occurrence counts.
C28_Witness ==
    /\ dRet.called
    /\ \E i, j \in DOMAIN dRet.patterns :
          /\ i < j
          /\ dRet.patterns[i].type = "problematic_tool"
          /\ dRet.patterns[j].type = "recurring_error_type"
          /\ dRet.patterns[i].severity # dRet.patterns[j].severity
    /\ \E i \in 1..(Len(dRet.patterns) - 1) :
          /\ dRet.patterns[i].severity = dRet.patterns[i + 1].severity
          /\ dRet.patterns[i].occurrences > dRet.patterns[i + 1].occurrences

(***************************************************************************)
(* Lines that are not failure records (checked under SpecPat)              *)
(***************************************************************************)
\* The records of the last call's window that log_failure wrote.
WellFormedWindow ==
    SelectSeq(pWin, LAMBDA l : l \in LoggedRecords(l.timestamp))

\* C29: whatever lines the log holds that are not well-formed failure
\* records, a call of analyze_patterns returns, and returns the alerts it
\* would return for the log without those lines.
C29_MalformedNeverFatal ==
    pRet.outcome # "none" =>
        /\ pRet.outcome = "alerts"
        /\ pRet.alerts = ErrorTypeAlerts(WellFormedWindow)
                         \o CommandAlerts(WellFormedWindow)

(***************************************************************************)
(* Claims about cleanup_old_sessions (checked under SpecArch)              *)
(***************************************************************************)
\* C30 as stated: after a run of the archiver, however it interleaves with
\* log_failure calls, the failure records under sessions/ and archive/ are
\* no fewer than before the run, and the failure log of each archived
\* session holds exactly what it held in sessions/ when it was moved.
C30_ArchiverSafety ==
    /\ ArTotal >= arBefore
    /\ \A g \in ArArchived : arLog[g] = arAtMove[g]

\* What holds of C30: the records are no fewer than before the run, and the
\* failure log of each archived session begins with what it held when it
\* was moved; one record can follow, and only that of a log_failure call
\* that had the log open when the directory was moved.
C30_NothingLost ==
    /\ ArTotal >= arBefore
    /\ \A g \in ArArchived :
          /\ IsPrefix(arAtMove[g], arLog[g])
          /\ Len(arLog[g]) <= Len(arAtMove[g]) + (IF arLate[g] THEN 1 ELSE 0)

\* An archived log that held a record when it was moved and got the record
\* of the call that had it open, after a later call found no directory.
C30_LateRecord ==
    \E g \in ArArchived :
        /\ arLate[g]
        /\ Len(arAtMove[g]) >= 1
        /\ Len(arLog[g]) = Len(arAtMove[g]) + 1
        /\ arRecs > Len(arLog[g])
        /\ arPc = "idle"

(***************************************************************************)
(* Claims about cleanup_old_sessions over several sessions (SpecSweep)     *)
(***************************************************************************)
\* A step that is a run of cleanup_old_sessions.
SweepStep == swRuns' # swRuns

\* The cutoff of the run a step makes (line 773).
SweepCutoff == swNow - swDays' * DayLen

\* The active sessions whose recorded start time is before the cutoff.
SweepAged ==
    {g \in SwActive(swAt) : swInfo[g][1] = "ok" /\ swInfo[g][2] < SweepCutoff}

\* C31: a run of cleanup_old_sessions(days) moves exactly the active
\* sessions whose recorded start time is older than the cutoff, each to
\* archive/<date of its start time>/<id>, leaves every other active session
\* in place, and returns the number of sessions it moved.
C31_ArchiveOlderThan ==
    [][SweepStep =>
         /\ \A g \in SweepAged : swAt'[g] = <<"archive", DateOf(swInfo[g][2])>>
         /\ \A g \in SwActive(swAt) \ SweepAged : swAt'[g] = ActiveDir
         /\ swRet' = <<"none", Cardinality(SweepAged)>>]_vars

\* No session id was given a second directory, and every session-info.json
\* is missing, raises what line 804 catches, or is well formed.
SweepAsIntended ==
    /\ \A g, h \in SwDirs : g # h /\ swAt[g] # NoDir /\ swAt[h] # NoDir
                               => swId[g] # swId[h]
    /\ \A g \in SwActive(swAt) :
          InfoError(swInfo[g]) \in {"none", "skipped"} \/ Caught(InfoError(swInfo[g]))

\* What holds of C31: the same, for runs over such sessions.
C31_ArchiveOlderThanAsIntended ==
    [][SweepStep /\ SweepAsIntended =>
         /\ \A g \in SweepAged : swAt'[g] = <<"archive", DateOf(swInfo[g][2])>>
         /\ \A g \in SwActive(swAt) \ SweepAged : swAt'[g] = ActiveDir
         /\ swRet' = <<"none", Cardinality(SweepAged)>>]_vars

\* The active sessions without a readable start time.
SweepUnreadable == {g \in SwActive(swAt) : swInfo[g][1] # "ok"}

\* C32: an active session whose session-info.json is missing, unparsable or
\* lacks the start time is never moved by cleanup_old_sessions: it stays in
\* sessions/ with its contents unchanged, is not counted in the returned
\* total, and does not stop the run from processing the other sessions.
C32_UnreadableSkipped ==
    [][SweepStep =>
         \A g \in SweepUnreadable :
            /\ swAt'[g] = ActiveDir
            /\ swInfo'[g] = swInfo[g] /\ swLog'[g] = swLog[g]
            /\ swRet' = <<"none", Cardinality({h \in SwDirs : swAt'[h] # swAt[h]})>>
            /\ \A h \in SweepAged :
                  swAt'[h] = SwMovedTo(swAt, h, DateOf(swInfo[h][2]))]_vars

\* What holds of C32: the session stays where it is, as it is.
C32_UnreadableStays ==
    [][SweepStep =>
         \A g \in SweepUnreadable :
            /\ swAt'[g] = ActiveDir
            /\ swInfo'[g] = swInfo[g] /\ swLog'[g] = swLog[g]]_vars

\* C33: no session id has a directory under archive/ and one under
\* sessions/, and every failure record lies in exactly one session
\* directory.
C33_ArchivedNeverActiveAgain ==
    /\ \A g, h \in SwDirs :
          swAt[g] = ActiveDir /\ swAt[h][1] \in {"archive", "nested"}
             => swId[g] # swId[h]
    /\ \A n \in 1..swRecs :
          Cardinality({g \in SwDirs : swAt[g] # NoDir
                           /\ \E k \in DOMAIN swLog[g] : swLog[g][k] = n}) = 1

\* What holds of C33: the part about the records.
C33_RecordInOneDirectory ==
    \A n \in 1..swRecs :
       Cardinality({g \in SwDirs : swAt[g] # NoDir
                        /\ \E k \in DOMAIN swLog[g] : swLog[g][k] = n}) = 1

(***************************************************************************)
(* Claims about session-info.json (checked under SpecInfo)                 *)
(***************************************************************************)
\* C34: session-info.json is written at most once per session: once it
\* exists its content never changes, also when several processes of the
\* session start together and each finds it absent before any has written.
C34_WrittenOnce == [][siFile # NoFile => siFile' = siFile]_vars

\* What holds of C34: a process that finds session-info.json in place at
\* either check writes nothing, and the file is never removed.
C34_NeverRemoved == [][siFile # NoFile => siFile' # NoFile]_vars

(***************************************************************************)
(* Claims about get_session_details (checked under SpecGd)                 *)
(***************************************************************************)
\* The session id is under neither sessions/ nor archive/.
InNeither(session_id) ==
    session_id \notin gdActive /\ ArchivedUnder(session_id) = {}

\* What C35 asks of the details returned for an id.
DetailsAsSpecified(session_id, result) ==
    IF session_id \in gdActive THEN result = Details(session_id, ActiveDir)
    ELSE IF ArchivedUnder(session_id) # {}
         THEN \E date \in ArchivedUnder(session_id) :
                 result = Details(session_id, <<"archive", date>>)
         ELSE result = NotFound(session_id)

\* C35: get_session_details(id) returns the session found under sessions/,
\* otherwise the one found under archive/; for an id in neither, also when
\* there is no archive/ at all, it returns the not-found result without
\* raising, and compare_sessions then returns its error result.
C35_SessionDetails ==
    /\ gdRet[1] = "get_session_details" => DetailsAsSpecified(gdRet[2], gdRet[4])
    /\ gdRet[1] = "compare_sessions" /\ (InNeither(gdRet[2]) \/ InNeither(gdRet[3]))
          => gdRet[4][1] = "error"

\* What holds of C35: the same once archive/ exists, or for ids that have a
\* directory under sessions/.
C35_SessionDetailsWithArchive ==
    /\ gdRet[1] = "get_session_details" /\ (gdArchive # NoArchive \/ gdRet[2] \in gdActive)
          => DetailsAsSpecified(gdRet[2], gdRet[4])
    /\ gdRet[1] = "compare_sessions" /\ gdArchive # NoArchive
          /\ (InNeither(gdRet[2]) \/ InNeither(gdRet[3]))
          => gdRet[4][1] = "error"

(***************************************************************************)
(* Claims about execute_gates (checked under SpecGate)                     *)
(***************************************************************************)
\* C36: in any run of execute_gates a gate is executed only after every
\* gate named in its depends_on has been executed and has passed in that
\* run.
C36_DependenciesRespected ==
    \A i \in DOMAIN gtResults :
       \A dependency \in gtGates[gtResults[i][1]].depends_on :
          \E j \in 1..(i - 1) : gtResults[j] = <<dependency, TRUE>>

\* The entries of execution_order taken so far that name an enabled gate.
EnabledTaken ==
    SelectSeq(SubSeq(gtOrder, 1, gtPos), LAMBDA gate_name : gtGates[gate_name].enabled)

\* The result is that of a required gate that failed.
RequiredFailure(r) == ~r[2] /\ gtGates[r[1]].required

\* C38: execute_gates runs the enabled gates in execution_order and stops
\* at the first required gate that fails: no gate after it in the order is
\* executed, a failing optional gate does not stop the run, and the overall
\* result is passed exactly when no executed gate failed.
C38_StopsAtFirstRequiredFailure ==
    /\ gtPc # "none" =>
          /\ Len(gtResults) = Len(EnabledTaken)
          /\ \A i \in DOMAIN gtResults :
                /\ gtResults[i][1] = EnabledTaken[i]
                /\ gtResults[i][2] = ExecuteGate(gtGates[gtResults[i][1]])
                /\ i < Len(gtResults) => ~RequiredFailure(gtResults[i])
    /\ gtPc \in {"after", "returned"} =>
          \/ gtPos = Len(gtOrder)
          \/ gtResults # <<>> /\ RequiredFailure(gtResults[Len(gtResults)])
    /\ gtPc = "loop" /\ gtResults # <<>> => ~RequiredFailure(gtResults[Len(gtResults)])
    /\ gtPc = "returned" =>
          gtRet[1] = (\A i \in DOMAIN gtResults : gtResults[i][2])

\* A run that went on after an optional gate failed, stopped at a required
\* gate that failed, and left an enabled gate after it unexecuted.
C38_Witness ==
    /\ gtPc = "returned"
    /\ Len(gtOrder) = 3 /\ gtPos = 2 /\ Len(gtResults) = 2
    /\ ~gtResults[1][2] /\ ~gtGates[gtResults[1][1]].required
    /\ RequiredFailure(gtResults[2])
    /\ gtGates[gtOrder[3]].enabled
    /\ gtRet = <<FALSE, 2, 2>>

(***************************************************************************)
(* Claims about _apply_stage_relaxations (checked under SpecRelax)         *)
(***************************************************************************)
\* The relaxations the gate passed in under a name has for the stage.
GivenRelaxations(name) ==
    IF rxStage \in DOMAIN rxGiven[name]["stage_relaxations"]
    THEN rxGiven[name]["stage_relaxations"][rxStage]
    ELSE <<>>

\* The gate the returned configuration has under a name.
ReturnedGate(name) == rxHeap[rxRet[2][name]]

\* C37: for stage push-to-main or None the returned configuration has every
\* gate field equal to the base configuration; for pre-push or pr each gate
\* field named in the gate's relaxations for the stage takes the relaxed
\* value and every other field and gate keeps its base value; in all cases
\* the configuration object passed in is left unmodified.
C37_StageRelaxations ==
    rxPc = "returned" =>
       /\ rxStage \in {"push-to-main", StageNone} =>
             /\ rxRet[1] = "returned"
             /\ \A name \in RelaxGates : ReturnedGate(name) = rxGiven[name]
       /\ rxStage \in {"pre-push", "pr"} =>
             /\ rxRet[1] = "returned"
             /\ DOMAIN rxRet[2] = RelaxGates
             /\ \A name \in RelaxGates :
                   /\ \A k \in GateFields :
                         ReturnedGate(name)[k] =
                            IF k \in DOMAIN GivenRelaxations(name)
                            THEN GivenRelaxations(name)[k]
                            ELSE rxGiven[name][k]
                   /\ ReturnedGate(name)["stage_relaxations"]
                         = rxGiven[name]["stage_relaxations"]
       /\ \A name \in RelaxGates : rxHeap[rxConfig[name]] = rxGiven[name]

\* A call for pre-push where coverage has two fields relaxed and testing an
\* unknown key: coverage comes back relaxed, testing as it was.
C37_Witness ==
    /\ rxPc = "returned" /\ rxStage = "pre-push"
    /\ rxGiven["coverage"]["required"]
    /\ DOMAIN GivenRelaxations("coverage") = {"required", "threshold"}
    /\ ReturnedGate("coverage")["threshold"] = 70
    /\ ~ReturnedGate("coverage")["required"]
    /\ DOMAIN GivenRelaxations("testing") = {UnknownKey}
    /\ ReturnedGate("testing") = rxGiven["testing"]
    /\ rxHeap[rxConfig["coverage"]]["threshold"] = 85

(***************************************************************************)
(* Claims about analyze_recent beside the archiver (checked under SpecScan)*)
(***************************************************************************)
\* C39: analyze_recent counts every failure record inside the window
\* exactly once, also when cleanup_old_sessions moves session directories
\* from sessions/ to archive/ while the scan is in progress.
C39_CountedExactlyOnce ==
    scPc = "returned" =>
       /\ \A i \in ScanIds : scRead[i] = 1
       /\ scRet = NumScanIds

\* What holds of C39: no record is missed.
C39_NoneMissed ==
    scPc = "returned" =>
       /\ \A i \in ScanIds : scRead[i] \in {1, 2}
       /\ scRet >= NumScanIds

(***************************************************************************)
(* Claims about the consumer of alerts.json (checked under SpecEnd)        *)
(***************************************************************************)
\* C40: no alert snapshot is discarded unread: a snapshot saved after the
\* consumer's get_pending_alerts is still there after the consumer's
\* clear_alerts, so a snapshot that clear_alerts removes was returned by
\* some get_pending_alerts before.
C40_NoSnapshotDiscardedUnread ==
    [][sePc = "clear_unlink" /\ sePc' = "done" =>
         /\ seFile # seAlerts => seFile' = seFile
         /\ seFile' = NoSnapshot => seFile \in seSeen]_vars

\* What holds of C40: clear_alerts runs only in a consumer that got a
\* snapshot, and it leaves no alerts.json behind.
C40_ClearAfterGet ==
    [][sePc = "clear_unlink" /\ sePc' = "done" =>
         seAlerts # NoSnapshot /\ seAlerts \in seSeen /\ seFile' = NoSnapshot]_vars

====
